---------------------------- MODULE Spec2Model ----------------------------
(***************************************************************************)
(* A model of the multi-disc series tracker and playlist manager of        *)
(* 7z-to-chd (src/lib/playlist.py, class PlaylistManager).                 *)
(*                                                                         *)
(* Text is modelled as a sequence of tokens.  File names and titles are    *)
(* spelled character by character, so that the regular expressions of the  *)
(* parser, Path.stem, str.strip and str.endswith are computed the way the  *)
(* code computes them.  Fixed pieces of playlist comments are single       *)
(* tokens.                                                                 *)
(***************************************************************************)
EXTENDS Integers, Sequences, FiniteSets, TLC

(***************************************************************************)
(* Bounds of the model.                                                    *)
(***************************************************************************)
\* Number of entries of FileTable that exist as file names in the model.
MaxFiles == 6

\* Number of operations in one behaviour.
MaxSteps == 3

\* Number of paths in one call of register_multiple_discs.
MaxBatch == 2

\* Number of entries of FileTable the output directory may hold at the start.
MaxInitFiles == 3

\* Highest disc number of the disc sets the completeness tests are compared on.
MaxDisc == 4

\* Number of entries of FileTable that also exist in another directory.
MaxOtherFiles == 2

(***************************************************************************)
(* Characters and text helpers.                                            *)
(***************************************************************************)
Digits == {"0", "1", "2", "3", "4", "5", "6", "7", "8", "9"}

DigitValue ==
    [c \in Digits |->
        CASE c = "0" -> 0 [] c = "1" -> 1 [] c = "2" -> 2 [] c = "3" -> 3
          [] c = "4" -> 4 [] c = "5" -> 5 [] c = "6" -> 6 [] c = "7" -> 7
          [] c = "8" -> 8 [] c = "9" -> 9]

\* str.lower() on the letters the model uses.
LowerMap ==
    [A |-> "a", B |-> "b", C |-> "c", D |-> "d", E |-> "e", F |-> "f",
     G |-> "g", H |-> "h", I |-> "i", J |-> "j", K |-> "k", L |-> "l",
     M |-> "m", N |-> "n", O |-> "o", P |-> "p", Q |-> "q", R |-> "r",
     S |-> "s", T |-> "t", U |-> "u", V |-> "v", W |-> "w", X |-> "x",
     Y |-> "y", Z |-> "z"]

Lower(c) == IF c \in DOMAIN LowerMap THEN LowerMap[c] ELSE c

LowerSeq(s) == [i \in 1..Len(s) |-> Lower(s[i])]

\* s[a..b-1], the slice s[a-1:b-1] of Python.
Slice(s, a, b) == [i \in 1..(IF b > a THEN b - a ELSE 0) |-> s[a + i - 1]]

\* The first position j >= i of s that holds no element of set (Len(s)+1 if none):
\* where a greedy  [set]*  that starts at i stops.
RECURSIVE SkipWhile(_, _, _)
SkipWhile(s, i, set) ==
    IF i > Len(s) \/ s[i] \notin set THEN i ELSE SkipWhile(s, i + 1, set)

\* int() of a run of decimal digits.
RECURSIVE IntOf(_)
IntOf(ds) ==
    IF Len(ds) = 0 THEN 0
    ELSE 10 * IntOf(Slice(ds, 1, Len(ds))) + DigitValue[ds[Len(ds)]]

\* str(n) of a natural number.
DigitChar == <<"1", "2", "3", "4", "5", "6", "7", "8", "9">>

RECURSIVE Decimal(_)
Decimal(n) ==
    IF n < 10 THEN <<IF n = 0 THEN "0" ELSE DigitChar[n]>>
    ELSE Decimal(n \div 10) \o Decimal(n % 10)

\* Whether s holds sub at position i, case-insensitively when ci.
HasAt(s, i, sub, ci) ==
    /\ i >= 1
    /\ i + Len(sub) - 1 <= Len(s)
    /\ \A k \in 1..Len(sub) :
          IF ci THEN Lower(s[i + k - 1]) = Lower(sub[k]) ELSE s[i + k - 1] = sub[k]

\* sub in s
Contains(s, sub) == \E i \in 1..(Len(s) + 1) : HasAt(s, i, sub, FALSE)

EndsWith(s, sub) == HasAt(s, Len(s) - Len(sub) + 1, sub, FALSE)

\* str.strip(chars)
RECURSIVE StripLeft(_, _)
StripLeft(s, set) ==
    IF Len(s) > 0 /\ s[1] \in set THEN StripLeft(Tail(s), set) ELSE s

RECURSIVE StripRight(_, _)
StripRight(s, set) ==
    IF Len(s) > 0 /\ s[Len(s)] \in set THEN StripRight(Slice(s, 1, Len(s)), set) ELSE s

Strip(s, set) == StripRight(StripLeft(s, set), set)

\* The position of the last element of s equal to c, 0 if there is none (str.rfind + 1).
RECURSIVE RFind(_, _, _)
RFind(s, c, i) == IF i = 0 \/ s[i] = c THEN i ELSE RFind(s, c, i - 1)

\* PurePath.stem of a one-component path: the name without its last suffix; a
\* leading or a trailing dot starts no suffix, and "." is the path with no name.
PathStem(name) ==
    LET p == RFind(name, ".", Len(name))
    IN  IF name = <<".">> THEN <<>>
        ELSE IF 1 < p /\ p < Len(name) THEN Slice(name, 1, p) ELSE name

(***************************************************************************)
(* The name parser.                                                        *)
(***************************************************************************)
Whitespace == {" "}
Separators == {" ", "-", "_", "."}
OpenBrackets == {"[", "("}
CloseBrackets == {"]", ")"}

\* self.disc_patterns, in the order the parser tries them.  A pattern is
\*   pre   "bracket": [\[(]?  ... [\])]?      "seps": [\s\-\_\.]+ ... [\s\-\_\.]?
\*   kw    the marker word (matched case-insensitively), empty for a bare number
\*   ws    whether \s* stands between the word and the digits
disc_patterns ==
    << [pre |-> "bracket", kw |-> <<"d", "i", "s", "c">>, ws |-> TRUE],
       [pre |-> "bracket", kw |-> <<"c", "d">>, ws |-> TRUE],
       [pre |-> "bracket", kw |-> <<"d", "i", "s", "k">>, ws |-> TRUE],
       [pre |-> "bracket", kw |-> <<"v", "o", "l", "u", "m", "e">>, ws |-> TRUE],
       [pre |-> "bracket", kw |-> <<"v", "o", "l">>, ws |-> TRUE],
       [pre |-> "bracket", kw |-> <<"d">>, ws |-> FALSE],
       [pre |-> "seps", kw |-> <<"d">>, ws |-> FALSE],
       [pre |-> "seps", kw |-> <<"d", "i", "s", "c">>, ws |-> FALSE],
       [pre |-> "seps", kw |-> <<"c", "d">>, ws |-> FALSE],
       [pre |-> "seps", kw |-> <<>>, ws |-> FALSE] >>

\* One attempt of re to match pattern pat with the match starting at position s:
\* [ok, ds, de, end], the digits being name[ds..de-1] and the match name[s..end-1].
\* Every quantifier is greedy and none ever has to give back: the element after
\* each run is of another character class.
MatchAt(name, s, pat) ==
    LET k  == IF pat.pre = "bracket"
              THEN (IF s <= Len(name) /\ name[s] \in OpenBrackets THEN s + 1 ELSE s)
              ELSE SkipWhile(name, s, Separators)
        j  == k + Len(pat.kw)
        ds == IF pat.ws THEN SkipWhile(name, j, Whitespace) ELSE j
        de == SkipWhile(name, ds, Digits)
        post == IF pat.pre = "bracket" THEN CloseBrackets ELSE Separators
        en == IF de <= Len(name) /\ name[de] \in post THEN de + 1 ELSE de
    IN  [ok  |-> /\ s <= Len(name)
                 /\ (pat.pre = "seps" => k > s)
                 /\ HasAt(name, k, pat.kw, TRUE)
                 /\ de > ds,
         ds  |-> ds, de |-> de, end |-> en]

\* re.search(pattern, name): the leftmost position a match starts at, 0 if none.
RECURSIVE SearchFrom(_, _, _)
SearchFrom(name, s, pat) ==
    IF s > Len(name) THEN 0
    ELSE IF MatchAt(name, s, pat).ok THEN s
    ELSE SearchFrom(name, s + 1, pat)

\* re.sub(pattern, "", name): name without its non-overlapping matches, found from
\* the left.
RECURSIVE SubFrom(_, _, _)
SubFrom(name, s, pat) ==
    IF s > Len(name) THEN <<>>
    ELSE LET m == MatchAt(name, s, pat)
         IN  IF m.ok THEN SubFrom(name, m.end, pat)
             ELSE <<name[s]>> \o SubFrom(name, s + 1, pat)

\* The loop over self.disc_patterns from pattern number i on.
RECURSIVE ExtractFrom(_, _)
ExtractFrom(name, i) ==
    IF i > Len(disc_patterns) THEN [base |-> name, disc |-> 0, found |-> FALSE]
    ELSE LET pat == disc_patterns[i]
             s   == SearchFrom(name, 1, pat)
         IN  IF s = 0 THEN ExtractFrom(name, i + 1)
             ELSE LET m == MatchAt(name, s, pat)
                  IN  [base  |-> Strip(SubFrom(name, 1, pat), Separators),
                       disc  |-> IntOf(Slice(name, m.ds, m.de)),
                       found |-> TRUE]

\* _extract_base_name_and_disc(filename): (base, disc), found = FALSE standing for
\* the disc number None.
ExtractBaseNameAndDisc(filename) == ExtractFrom(PathStem(filename), 1)

\* _clean_filename
IllegalChars == {"<", ">", ":", "\"", "/", "\\", "|", "?", "*"}

CleanFilename(name) ==
    [i \in 1..Len(name) |-> IF name[i] \in IllegalChars THEN "_" ELSE name[i]]

(***************************************************************************)
(* The patterns of _find_related_discs.                                    *)
(***************************************************************************)
ChdSuffix == <<".", "c", "h", "d">>

\* The four patterns  {pattern_base}.*WORD\s*(\d+).*\.chd$  in the order tried;
\* the last one, d(\d+), has no \s*.
related_patterns ==
    << [kw |-> <<"d", "i", "s", "c">>, ws |-> TRUE],
       [kw |-> <<"c", "d">>, ws |-> TRUE],
       [kw |-> <<"d", "i", "s", "k">>, ws |-> TRUE],
       [kw |-> <<"d">>, ws |-> FALSE] >>

\* One element of pattern_base against one character of the name, under
\* re.IGNORECASE: the brackets are escaped by the code, "." is left as it is and
\* matches any character, every other character of the model's titles is literal.
BaseCharMatches(b, c) == b = "." \/ Lower(b) = Lower(c)

BaseMatchesAt(name, s, base) ==
    /\ s + Len(base) - 1 <= Len(name)
    /\ \A k \in 1..Len(base) : BaseCharMatches(base[k], name[s + k - 1])

\* Where WORD\s*(\d+) matches with WORD at position k: [ok, ds, de].
WordDigitsAt(name, k, pat) ==
    LET j  == k + Len(pat.kw)
        ds == IF pat.ws THEN SkipWhile(name, j, Whitespace) ELSE j
        de == SkipWhile(name, ds, Digits)
    IN  [ok |-> HasAt(name, k, pat.kw, TRUE) /\ de > ds, ds |-> ds, de |-> de]

\* re.search(pattern, name, re.IGNORECASE) for one pattern: the title is found at
\* its leftmost position, the greedy .* after it leaves WORD at the last position
\* where WORD\s*\d+ matches, and the name has to end in .chd.
RelatedMatch(base, name, pat) ==
    LET starts == {s \in 1..(Len(name) + 1) : BaseMatchesAt(name, s, base)}
        s0     == CHOOSE s \in starts : \A t \in starts : s <= t
        e      == s0 + Len(base)
        ks     == {k \in e..Len(name) : WordDigitsAt(name, k, pat).ok}
        k0     == CHOOSE k \in ks : \A t \in ks : t <= k
        m      == WordDigitsAt(name, k0, pat)
    IN  IF starts = {} \/ ~HasAt(name, Len(name) - 3, ChdSuffix, TRUE) THEN [found |-> FALSE, disc |-> 0]
        ELSE IF ks = {} THEN [found |-> FALSE, disc |-> 0]
        ELSE [found |-> TRUE, disc |-> IntOf(Slice(name, m.ds, m.de))]

\* The loop "for pattern in patterns" for one file, up to its break.
RECURSIVE RelatedFrom(_, _, _)
RelatedFrom(base, name, i) ==
    IF i > Len(related_patterns) THEN [found |-> FALSE, disc |-> 0]
    ELSE LET r == RelatedMatch(base, name, related_patterns[i])
         IN  IF r.found THEN r ELSE RelatedFrom(base, name, i + 1)

RelatedDisc(base, name) == RelatedFrom(base, name, 1)

(***************************************************************************)
(* Paths.  A path is [parent, name]; str(path) and Path(text) convert      *)
(* between a path and its text.                                            *)
(***************************************************************************)
OutputDir == <<"out">>
OtherDir == <<"tmp">>
RelativeDir == <<".">>

PathIn(dir, name) == [parent |-> dir, name |-> name]

\* str(path)
\* A variant of PathStr that writes the file name alone.
PathStr_NameOnly(p) == p.name

PathStr(p) == IF p.parent = RelativeDir THEN p.name ELSE p.parent \o <<"/">> \o p.name

\* Path(text)
PathOf(text) ==
    LET i == RFind(text, "/", Len(text))
    IN  IF i = 0 THEN [parent |-> RelativeDir, name |-> text]
        ELSE [parent |-> Slice(text, 1, i), name |-> Slice(text, i + 1, Len(text) + 1)]

(***************************************************************************)
(* The file names of the model.                                            *)
(***************************************************************************)
Foo == <<"F", "o", "o">>
Bar == <<"B", "a", "r">>
Baz == <<"B", "a", "z">>

DiscFile(title, n) == title \o <<" ", "(", "D", "i", "s", "c", " ", n, ")">> \o ChdSuffix

FileTable ==
    << DiscFile(Foo, "1"),
       DiscFile(Foo, "3"),
       DiscFile(Foo, "2"),
       DiscFile(Bar, "1"),
       Foo \o <<" ", "C", "D", "2">> \o ChdSuffix,
       Baz \o ChdSuffix,
       DiscFile(Bar, "2"),
       Foo \o <<" ", "-", " ", "4">> \o ChdSuffix >>

Files == {FileTable[i] : i \in 1..MaxFiles}

FileIndex(f) == CHOOSE i \in 1..Len(FileTable) : FileTable[i] = f

\* What register_disc and scan_directory parse of a file name: the parser is given
\* chd_path.stem and takes the stem of that once more.
ParseTable == [f \in Files |-> ExtractBaseNameAndDisc(PathStem(f))]

\* "if disc_num": a disc number that is neither None nor 0.
HasDisc(parsed) == parsed.found /\ parsed.disc # 0

\* The titles register_disc and scan_directory track for the files.
TitlesOf(parse) == {parse[f].base : f \in {g \in DOMAIN parse : HasDisc(parse[g])}}

Titles == TitlesOf(ParseTable)

\* What _find_related_discs finds of a listed file for a title.
RelatedTable == [t \in Titles |-> [f \in Files |-> RelatedDisc(t, f)]]

\* An enumeration of a finite set (list(a_set), dict order): some order.
RECURSIVE SetToSeq(_)
SetToSeq(S) ==
    IF S = {} THEN <<>>
    ELSE LET x == CHOOSE y \in S : TRUE IN <<x>> \o SetToSeq(S \ {x})

SeqToSet(s) == {s[i] : i \in 1..Len(s)}

\* File names off the beaten track: a title that starts with "+", the disc
\* number 0, a title with a dot in it, two discs of a series with a gap, and a
\* name without a disc number.
OddFileTable ==
    << <<"+">> \o DiscFile(Foo, "1"),
       DiscFile(Foo, "0"),
       <<"D", "r", ".", " ">> \o DiscFile(Foo, "1"),
       DiscFile(Foo, "1"),
       DiscFile(Foo, "3"),
       Baz \o ChdSuffix >>

OddFiles == {OddFileTable[i] : i \in 1..Len(OddFileTable)}

\* Every file name of the model once: FileTable, then the names of OddFileTable
\* that FileTable does not hold.
InFileTable(f) == \E i \in 1..Len(FileTable) : FileTable[i] = f

NotInFileTable(f) == ~InFileTable(f)

ListedTable == FileTable \o SelectSeq(OddFileTable, NotInFileTable)

\* The files of a directory in the order of ListedTable.
RECURSIVE TableOrder(_, _)
TableOrder(S, i) ==
    IF i > Len(ListedTable) THEN <<>>
    ELSE (IF ListedTable[i] \in S THEN <<ListedTable[i]>> ELSE <<>>) \o TableOrder(S, i + 1)

\* The (title, disc) pairs a listed file can be added as: by its parsed name, or
\* as a related disc of a title.
ClaimsOf(f, parsed, related) ==
    (IF HasDisc(parsed) THEN {<<parsed.base, parsed.disc>>} ELSE {})
    \cup {<<t, related[t][f].disc>> : t \in {u \in DOMAIN related : related[u][f].found}}

ClaimsFrom(parse, related) == [f \in DOMAIN parse |-> ClaimsOf(f, parse[f], related)]

\* f competes with another file of S for a disc of a title.
Competes(S, f, claims) == \E g \in S \ {f} : claims[f] \cap claims[g] # {}

\* The rotations of the listing base that start at its first file or at a file
\* that competes with another.
Rotations(S, base, claims) ==
    {[i \in 1..Len(base) |-> base[((i + r - 1) % Len(base)) + 1]] :
        r \in {q \in 0..(Len(base) - 1) : q = 0 \/ Competes(S, base[q + 1], claims)}}

\* The orders in which glob may list the files S.  The code depends on the order
\* only through which of several files that claim the same disc of a title comes
\* first, so one listing per such file is enough: the enumeration by FileTable
\* and its rotations that start at a file another file competes with.
GlobOrders(S, claims) ==
    IF S = {} THEN {<<>>} ELSE Rotations(S, TableOrder(S, 1), claims)

\* What the pure functions of the file names give on the names of the model, each
\* computed once: the parser's results, the related discs, and the (title, disc)
\* pairs each file can be added as.
NameTables ==
    [parse   |-> ParseTable,
     related |-> RelatedTable,
     claims  |-> ClaimsFrom(ParseTable, RelatedTable)]

VARIABLE names          \* NameTables, kept at hand for the operations

ParseFile(name) == names.parse[name]

RelatedFile(base_game, name) == names.related[base_game][name]

\* The listings glob may give of the files S.
Listings(S) == GlobOrders(S, names.claims)

\* d[k] = v
SetKey(d, k, v) == [x \in (DOMAIN d) \cup {k} |-> IF x = k THEN v ELSE d[x]]

\* del d[k]
DelKey(d, k) == [x \in (DOMAIN d) \ {k} |-> d[x]]

EmptyDict == [x \in {} |-> <<>>]

(***************************************************************************)
(* Series records and signatures.  A disc is <<path, disc_num>>.           *)
(***************************************************************************)
\* list.sort(key=lambda x: x[1]) and sorted(..., key=lambda x: x[1]): stable.
RECURSIVE InsertSorted(_, _)
InsertSorted(s, e) ==
    IF Len(s) = 0 THEN <<e>>
    ELSE IF s[Len(s)][2] <= e[2] THEN Append(s, e)
    ELSE Append(InsertSorted(Slice(s, 1, Len(s)), e), s[Len(s)])

\* A variant of SortByDisc that leaves the list as it is.
SortByDisc_Unsorted(s) == s

RECURSIVE SortByDisc(_)
SortByDisc(s) ==
    IF Len(s) = 0 THEN <<>>
    ELSE InsertSorted(SortByDisc(Slice(s, 1, Len(s))), s[Len(s)])

DiscNumbers(list) == {list[i][2] : i \in 1..Len(list)}

MaxOf(S) == CHOOSE m \in S : \A x \in S : x <= m
MinOf(S) == CHOOSE m \in S : \A x \in S : m <= x

\* ":".join(f"{num}:{name}" ...) over the discs sorted by number (the code sorts
\* the (number, name) pairs; the numbers of one title are distinct).
RECURSIVE JoinSignature(_)
JoinSignature(list) ==
    IF Len(list) = 0 THEN <<>>
    ELSE LET e == Decimal(list[1][2]) \o <<":">> \o list[1][1].name
         IN  IF Len(list) = 1 THEN e ELSE e \o <<":">> \o JoinSignature(Tail(list))

SignatureOf(list) == JoinSignature(SortByDisc(list))

(***************************************************************************)
(* Playlist text.  A playlist file is the sequence of its lines.           *)
(***************************************************************************)
\* "# Created by 7z-to-CHD Converter"
Marker == <<"#", " Created by 7z-to-CHD Converter">>

\* The text datetime.now() is formatted to.
Timestamp == "now"

\* The header and the entry lines _create_standard_playlist writes for the sorted
\* discs of a title.
EntryText(disc) ==
    IF disc[1].parent = OutputDir THEN disc[1].name ELSE PathStr(disc[1])

\* A variant of StandardEntry that writes the full path of every disc.
StandardEntry_FullPath(disc) == PathStr(disc[1]) \o <<" ", "#", " Disc ">> \o Decimal(disc[2])

StandardEntry(disc) == EntryText(disc) \o <<" ", "#", " Disc ">> \o Decimal(disc[2])

\* ", ".join(map(str, numbers))
RECURSIVE JoinNumbers(_)
JoinNumbers(nums) ==
    IF Len(nums) = 0 THEN <<>>
    ELSE IF Len(nums) = 1 THEN Decimal(nums[1])
    ELSE Decimal(nums[1]) \o <<", ">> \o JoinNumbers(Tail(nums))

\* sorted(a set of numbers)
RECURSIVE SortedNumbers(_)
SortedNumbers(S) ==
    IF S = {} THEN <<>> ELSE <<MinOf(S)>> \o SortedNumbers(S \ {MinOf(S)})

\* A variant of StandardContent whose header has the title line alone.
StandardContent_NoMarker(base_game, sorted_discs) ==
    << <<"#", " ">> \o base_game \o <<" - Multi-disc game playlist">>, <<"#">> >>
        \o [i \in 1..Len(sorted_discs) |-> StandardEntry(sorted_discs[i])]

StandardContent(base_game, sorted_discs) ==
    LET disc_nums == [i \in 1..Len(sorted_discs) |-> sorted_discs[i][2]]
        max_disc  == MaxOf(SeqToSet(disc_nums))
        missing   == (1..max_disc) \ SeqToSet(disc_nums)
    IN  << <<"#", " ">> \o base_game \o <<" - Multi-disc game playlist">>,
           Marker,
           <<"#", " Last updated: ", Timestamp>>,
           <<"#", " Total discs: ">> \o Decimal(Len(sorted_discs)) \o <<" (">>
               \o JoinNumbers(disc_nums) \o <<")">> >>
        \o (IF missing # {}
            THEN << <<"#", " Missing discs: ">> \o JoinNumbers(SortedNumbers(missing)) >>
            ELSE <<>>)
        \o << <<"#">> >>
        \o [i \in 1..Len(sorted_discs) |-> StandardEntry(sorted_discs[i])]

\* _read_m3u_file: the stripped lines that are no comment and end in .chd.
RECURSIVE ReadM3uFile(_)
ReadM3uFile(lines) ==
    IF Len(lines) = 0 THEN <<>>
    ELSE LET line == Strip(lines[1], Whitespace)
             keep == /\ Len(line) > 0
                     /\ line[1] # "#"
                     /\ EndsWith(LowerSeq(line), ChdSuffix)
         IN  (IF keep THEN <<line>> ELSE <<>>) \o ReadM3uFile(Tail(lines))

\* "# Created by 7z-to-CHD Converter" in content
HasMarker(lines) == \E i \in 1..Len(lines) : Contains(lines[i], Marker)

\* A playlist a user wrote for Foo: a comment and two discs in the user's order.
UserPlaylist ==
    << <<"#", " my order">>, DiscFile(Foo, "2"), DiscFile(Foo, "1") >>

(***************************************************************************)
(* The operations of PlaylistManager, as functions of the world w:         *)
(*   gs, sigs, created, custom, recent   the manager's five fields         *)
(*   m3u, bak    the playlist files and their backups, by file stem        *)
(*   sf          the content of the state file, NoFile if there is none    *)
(*   wrote       the playlist stems written during the current operation   *)
(*   called      the titles update_playlist was called for during it       *)
(*   ret         what the last update_playlist returned                    *)
(*   result      the titles of the dictionary the operation returns; for   *)
(*               register_disc the title it returns, none for None         *)
(*   managed     the playlist stems _create_standard_playlist wrote        *)
(*   raised      whether an exception left the operation                   *)
(*   fail        how the playlist writes of the operation fail: "none",    *)
(*               "open" (the first file operation raises OSError) or       *)
(*               "write" (the file is opened and the write raises)         *)
(*   failed      the playlist stems whose write failed during the operation *)
(***************************************************************************)
\* exists tells whether the file is there; the other fields are those of the
\* JSON document.
NoFile == [exists |-> FALSE]

\* The document _save_state writes ("last_updated" is not read back but for a log
\* line).  damage tells what is wrong with the file when it is read:
\*   "none"               nothing
\*   "syntax"             it cannot be opened or is no JSON document
\*   "created_playlists"  that field is no list (set() raises TypeError)
\*   "user_customized"    that field is no list
StateDocument(w) ==
    [exists            |-> TRUE,
     damage            |-> "none",
     game_series       |-> [t \in DOMAIN w.gs |->
                               [i \in 1..Len(w.gs[t]) |->
                                   <<PathStr(w.gs[t][i][1]), w.gs[t][i][2]>>]],
     created_playlists |-> SetToSeq(w.created),
     user_customized   |-> SetToSeq(w.custom),
     series_signatures |-> w.sigs]

SaveState(w) == [w EXCEPT !.sf = StateDocument(w)]

\* A new manager: the fields as __init__ leaves them before _load_state.
FreshManager(w) ==
    [w EXCEPT !.gs = EmptyDict, !.sigs = EmptyDict, !.created = {},
              !.custom = {}, !.recent = {}]

\* self.game_series as _load_state restores it from the document doc.
RestoredSeries(doc) ==
    [t \in DOMAIN doc.game_series |->
        [i \in 1..Len(doc.game_series[t]) |->
            <<PathOf(doc.game_series[t][i][1]), doc.game_series[t][i][2]>>]]

\* _load_state: the fields are restored one after the other, and the exception
\* a damaged field raises is caught with the fields before it already restored.
LoadState(w) ==
    IF ~w.sf.exists \/ w.sf.damage = "syntax" THEN w
    ELSE IF w.sf.damage = "created_playlists"
    THEN [w EXCEPT !.gs = RestoredSeries(w.sf)]
    ELSE IF w.sf.damage = "user_customized"
    THEN [w EXCEPT !.gs = RestoredSeries(w.sf),
                   !.created = SeqToSet(w.sf.created_playlists)]
    ELSE [w EXCEPT
            !.gs      = RestoredSeries(w.sf),
            !.created = SeqToSet(w.sf.created_playlists),
            !.custom  = SeqToSet(w.sf.user_customized),
            !.sigs    = w.sf.series_signatures,
            !.recent  = {}]

DiscsOf(w, base_game) == IF base_game \in DOMAIN w.gs THEN w.gs[base_game] ELSE <<>>

\* _update_series_signature
UpdateSeriesSignature(w, base_game) ==
    IF base_game \notin DOMAIN w.gs THEN w
    ELSE [w EXCEPT !.sigs = SetKey(w.sigs, base_game, SignatureOf(w.gs[base_game]))]

\* A variant of Tracked that compares the path alone.
Tracked_PathOnly(cur, file_path, disc_num) ==
    \E i \in 1..Len(cur) : cur[i][1] = file_path

\* The test of _add_to_game_series: the path or the disc number is tracked.
Tracked(cur, file_path, disc_num) ==
    \E i \in 1..Len(cur) : cur[i][1] = file_path \/ cur[i][2] = disc_num

\* A variant of AddToGameSeries that keeps the added disc alone.
AddToGameSeries_Replace(w, base_game, file_path, disc_num) ==
    IF Tracked(DiscsOf(w, base_game), file_path, disc_num)
    THEN w
    ELSE UpdateSeriesSignature(
             [w EXCEPT !.gs = SetKey(w.gs, base_game, << <<file_path, disc_num>> >>)],
             base_game)

\* _add_to_game_series
AddToGameSeries(w, base_game, file_path, disc_num) ==
    IF Tracked(DiscsOf(w, base_game), file_path, disc_num)
    THEN w
    ELSE UpdateSeriesSignature(
             [w EXCEPT !.gs = SetKey(w.gs, base_game,
                                     SortByDisc(Append(DiscsOf(w, base_game),
                                                       <<file_path, disc_num>>)))],
             base_game)

\* The signature _has_series_changed computes
CurrentSignature(w, base_game) ==
    IF base_game \in DOMAIN w.gs THEN SignatureOf(w.gs[base_game]) ELSE <<>>

\* _has_series_changed: [w, changed]; the call stores the signature it computes
\* and compares it with the stored one afterwards.
HasSeriesChanged(w, base_game) ==
    IF base_game \in w.recent THEN [w |-> w, changed |-> FALSE]
    ELSE IF base_game \notin DOMAIN w.sigs THEN [w |-> w, changed |-> TRUE]
    ELSE [w       |-> UpdateSeriesSignature(w, base_game),
          changed |-> CurrentSignature(w, base_game)
                          # UpdateSeriesSignature(w, base_game).sigs[base_game]]

\* A variant of IsComplete that does not ask for disc 1.
IsComplete_FromTwo(disc_numbers) ==
    \A i \in 2..MaxOf(disc_numbers) : i \in disc_numbers

\* all(i in disc_numbers for i in range(1, max_disc + 1))
IsComplete(disc_numbers) ==
    \A i \in 1..MaxOf(disc_numbers) : i \in disc_numbers

\* The end of _create_standard_playlist: the state is saved for a new playlist.
SaveIfNew(w, is_new) == IF is_new THEN SaveState(w) ELSE w

\* _create_standard_playlist when open or write raises OSError: the exception is
\* caught and None is returned.  A file that was opened for writing is left
\* empty.
FailedCreate(w, stem) ==
    [w EXCEPT !.m3u = IF w.fail = "write" THEN SetKey(w.m3u, stem, <<>>) ELSE w.m3u,
              !.failed = w.failed \cup {stem},
              !.ret = "none"]

\* _create_standard_playlist
CreateStandardPlaylist(w, base_game, stem) ==
    IF w.fail # "none" THEN FailedCreate(w, stem)
    ELSE
    SaveIfNew([w EXCEPT
                 !.m3u     = SetKey(w.m3u, stem,
                                    StandardContent(base_game, SortByDisc(w.gs[base_game]))),
                 !.created = w.created \cup {CleanFilename(base_game)},
                 !.wrote   = w.wrote \cup {stem},
                 !.managed = w.managed \cup {stem},
                 !.ret     = "path"],
              stem \notin DOMAIN w.m3u)

\* The file names of the entries _read_m3u_file returns.
ExistingFiles(existing_entries) ==
    {PathOf(existing_entries[i]).name : i \in 1..Len(existing_entries)}

\* The discs of a series whose file names are not among existing_files.
NewEntries(discs, existing_files) ==
    SelectSeq(discs, LAMBDA d : d[1].name \notin existing_files)

\* What _update_user_customized_playlist appends for the discs sorted_new.
AppendedLines(sorted_new) ==
    << <<>>,
       <<"#", " New entries added by 7z-to-CHD Converter">>,
       <<"#", " Added on: ", Timestamp>> >>
    \o [i \in 1..Len(sorted_new) |-> EntryText(sorted_new[i])]

\* _update_user_customized_playlist when a file operation raises OSError: the
\* exception is caught and m3u_path is returned.  The backup is there unless the
\* copy itself failed, and nothing is appended.
FailedAppend(w, stem) ==
    [w EXCEPT !.bak = IF w.fail = "write" THEN SetKey(w.bak, stem, w.m3u[stem]) ELSE w.bak,
              !.failed = w.failed \cup {stem},
              !.ret = "path"]

\* The backup and the write of _update_user_customized_playlist.
AppendNewEntries(w, stem, new_entries) ==
    IF Len(new_entries) = 0 THEN [w EXCEPT !.ret = "path"]
    ELSE IF w.fail # "none" THEN FailedAppend(w, stem)
    ELSE [w EXCEPT !.bak   = SetKey(w.bak, stem, w.m3u[stem]),
                   !.m3u   = SetKey(w.m3u, stem,
                                    w.m3u[stem] \o AppendedLines(SortByDisc(new_entries))),
                   !.wrote = w.wrote \cup {stem},
                   !.ret   = "path"]

\* _update_user_customized_playlist
UpdateUserCustomizedPlaylist(w, base_game, stem) ==
    AppendNewEntries(w, stem,
                     NewEntries(w.gs[base_game], ExistingFiles(ReadM3uFile(w.m3u[stem]))))

\* "if result: self.recently_updated.add(base_game)"
MarkRecent(w, base_game) ==
    IF w.ret = "path" THEN [w EXCEPT !.recent = w.recent \cup {base_game}] ELSE w

\* The part of update_playlist after the test whether the series changed.
WritePlaylist(w, base_game, stem) ==
    MarkRecent(IF stem \in DOMAIN w.m3u /\ stem \in w.custom
               THEN UpdateUserCustomizedPlaylist(w, base_game, stem)
               ELSE CreateStandardPlaylist(w, base_game, stem),
               base_game)

\* A variant of UpdateExisting that writes whether the series changed or not.
UpdateExisting_AlwaysWrites(hc, base_game, stem) ==
    WritePlaylist(hc.w, base_game, stem)

\* update_playlist of an existing playlist, hc being what _has_series_changed gave.
UpdateExisting(hc, base_game, stem) ==
    IF ~hc.changed THEN [hc.w EXCEPT !.ret = "path"]
    ELSE WritePlaylist(hc.w, base_game, stem)

\* update_playlist after its entry is recorded.
UpdateTracked(w, base_game, stem) ==
    IF base_game \notin DOMAIN w.gs \/ Len(DiscsOf(w, base_game)) <= 1 THEN w
    ELSE IF stem \in DOMAIN w.m3u
         THEN UpdateExisting(HasSeriesChanged(w, base_game), base_game, stem)
         ELSE WritePlaylist(w, base_game, stem)

\* update_playlist (the output directory is set)
UpdatePlaylist(w, base_game) ==
    UpdateTracked([w EXCEPT !.called = w.called \cup {base_game}, !.ret = "none"],
                  base_game, CleanFilename(base_game))

\* One round of the loop of _find_related_discs: the listed file name, r being
\* what the patterns find in it.
AddRelated(w, base_game, name, r) ==
    IF r.found /\ ~(\E i \in 1..Len(DiscsOf(w, base_game)) :
                       \/ DiscsOf(w, base_game)[i][1].name = name
                       \/ DiscsOf(w, base_game)[i][2] = r.disc)
    THEN AddToGameSeries(w, base_game, PathIn(OutputDir, name), r.disc)
    ELSE w

\* The characters of a title that re takes for a repetition when the title is
\* put into a pattern as it is: the code escapes the four brackets only.
Quantifiers == {"+", "*", "?"}

\* re.search raises re.error ("nothing to repeat") when it compiles a pattern
\* that starts with pattern_base and pattern_base starts with a repetition.  (The
\* other ways a title makes the pattern invalid are not modelled.)
PatternBaseRaises(base_game) == Len(base_game) > 0 /\ base_game[1] \in Quantifiers

\* _find_related_discs over the listing chd_files of the output directory; the
\* pattern is compiled for the first file listed.
RECURSIVE FindRelatedDiscs(_, _, _)
FindRelatedDiscs(w, base_game, chd_files) ==
    IF Len(chd_files) = 0 THEN w
    ELSE IF PatternBaseRaises(base_game) THEN [w EXCEPT !.raised = TRUE]
    ELSE FindRelatedDiscs(
             AddRelated(w, base_game, chd_files[1], RelatedFile(base_game, chd_files[1])),
             base_game, Tail(chd_files))

\* A variant of MaybeUpdatePlaylist that updates a complete series only.
MaybeUpdatePlaylist_CompleteOnly(w, base_game, update_playlists, handled_disc) ==
    IF /\ update_playlists
       /\ Len(DiscsOf(w, base_game)) > 1
       /\ IsComplete(DiscNumbers(DiscsOf(w, base_game)))
    THEN UpdatePlaylist(w, base_game)
    ELSE w

\* A variant of MaybeUpdatePlaylist that updates for the highest disc only.
MaybeUpdatePlaylist_HighestOnly(w, base_game, update_playlists, handled_disc) ==
    IF /\ update_playlists
       /\ Len(DiscsOf(w, base_game)) > 1
       /\ handled_disc = MaxOf(DiscNumbers(DiscsOf(w, base_game)))
    THEN UpdatePlaylist(w, base_game)
    ELSE w

\* The decision register_disc, register_multiple_discs take after the discs are
\* added: update the playlist if the series is complete or the highest disc was
\* the one handled.
MaybeUpdatePlaylist(w, base_game, update_playlists, handled_disc) ==
    IF /\ update_playlists
       /\ Len(DiscsOf(w, base_game)) > 1
       /\ \/ IsComplete(DiscNumbers(DiscsOf(w, base_game)))
          \/ handled_disc = MaxOf(DiscNumbers(DiscsOf(w, base_game)))
    THEN UpdatePlaylist(w, base_game)
    ELSE w

\* The end of register_disc, unless _find_related_discs raised: the playlist is
\* updated, the state is saved and base_game is returned.
UpdateAndSave(w, base_game, update_playlists, disc_num) ==
    IF w.raised THEN w
    ELSE [SaveState(MaybeUpdatePlaylist(w, base_game, update_playlists, disc_num))
             EXCEPT !.result = {base_game}]

\* register_disc after the name is parsed and has a disc number.
RegisterParsed(w, chd_path, parsed, update_playlists, chd_files) ==
    UpdateAndSave(
        FindRelatedDiscs(AddToGameSeries(w, parsed.base, chd_path, parsed.disc),
                         parsed.base, chd_files),
        parsed.base, update_playlists, parsed.disc)

\* register_disc
RegisterDiscOp(w, chd_path, update_playlists, chd_files) ==
    IF ~HasDisc(ParseFile(chd_path.name)) THEN w
    ELSE RegisterParsed(w, chd_path, ParseFile(chd_path.name), update_playlists, chd_files)

\* A variant of AddListed that adds discs to new titles only.
AddListed_NewTitlesOnly(w, dir, name, parsed) ==
    IF HasDisc(parsed) /\ parsed.base \notin DOMAIN w.gs
    THEN AddToGameSeries(w, parsed.base, PathIn(dir, name), parsed.disc)
    ELSE w

\* One file of the listing in scan_directory.
AddListed(w, dir, name, parsed) ==
    IF HasDisc(parsed) THEN AddToGameSeries(w, parsed.base, PathIn(dir, name), parsed.disc)
    ELSE w

\* The loop of scan_directory that adds the discs of the listing.  The code groups
\* the files by title first; one title's discs are added in the order listed
\* either way, and adding to one title touches no other.
RECURSIVE AddListedDiscs(_, _, _)
AddListedDiscs(w, dir, chd_files) ==
    IF Len(chd_files) = 0 THEN w
    ELSE AddListedDiscs(AddListed(w, dir, chd_files[1], ParseFile(chd_files[1])),
                        dir, Tail(chd_files))

\* "if playlist_path: updated_playlists[base_game] = playlist_path"
CollectResult(w, base_game) ==
    IF w.ret = "path" THEN [w EXCEPT !.result = w.result \cup {base_game}] ELSE w

\* A variant of ScanUpdate that updates every series of two discs or more.
ScanUpdate_EverySeries(w, base_game, update_all) ==
    IF Len(w.gs[base_game]) > 1
    THEN CollectResult(UpdatePlaylist(w, base_game), base_game)
    ELSE w

\* One round of the loop of scan_directory over self.game_series.items().
ScanUpdate(w, base_game, update_all) ==
    IF /\ Len(w.gs[base_game]) > 1
       /\ (update_all \/ IsComplete(DiscNumbers(w.gs[base_game])))
    THEN CollectResult(UpdatePlaylist(w, base_game), base_game)
    ELSE w

RECURSIVE ScanUpdates(_, _, _)
ScanUpdates(w, titles, update_all) ==
    IF Len(titles) = 0 THEN w
    ELSE ScanUpdates(ScanUpdate(w, titles[1], update_all), Tail(titles), update_all)

\* The keys of game_groups in scan_directory: the titles of the listed files that
\* have a disc number.
ScanGroups(chd_files) ==
    {ParseFile(chd_files[i]).base :
        i \in {j \in 1..Len(chd_files) : HasDisc(ParseFile(chd_files[j]))}}

\* The start of scan_directory: recently_updated is cleared and the signatures of
\* the titles found are deleted.
ScanStart(w, groups) ==
    [w EXCEPT !.recent = {}, !.result = {},
              !.sigs = [t \in (DOMAIN w.sigs) \ groups |-> w.sigs[t]]]

\* The end of scan_directory: the loop over the series, and the state is saved.
ScanFinish(w, update_all) ==
    SaveState(ScanUpdates(w, SetToSeq(DOMAIN w.gs), update_all))

\* scan_directory of the output directory, which exists.
ScanDirectoryOp(w, update_all, chd_files) ==
    ScanFinish(AddListedDiscs(ScanStart(w, ScanGroups(chd_files)), OutputDir, chd_files),
               update_all)

\* A variant of HasConsecutive that does not look at disc 1.
HasConsecutive_FromTwo(disc_nums) ==
    \A i \in 2..(MaxOf(disc_nums) - 1) : ~(i \notin disc_nums /\ (i + 1) \in disc_nums)

\* has_consecutive of check_for_incomplete_series
HasConsecutive(disc_nums) ==
    \A i \in 1..(MaxOf(disc_nums) - 1) : ~(i \notin disc_nums /\ (i + 1) \in disc_nums)

\* The test of check_for_incomplete_series on one series and the update.
CheckFound(w, base_game, disc_nums, min_discs, expected_max_discs) ==
    IF w.raised THEN w
    ELSE
    IF /\ Len(w.gs[base_game]) >= min_discs
       /\ MaxOf(disc_nums) <= expected_max_discs
       /\ (1 \in disc_nums \/ MinOf(disc_nums) < 3)
       /\ HasConsecutive(disc_nums)
    THEN CollectResult(UpdatePlaylist(w, base_game), base_game)
    ELSE w

\* The search for more discs in check_for_incomplete_series.
CheckSearch(w, base_game, min_discs, force_scan, chd_files) ==
    IF force_scan \/ Len(w.gs[base_game]) = min_discs
    THEN FindRelatedDiscs(w, base_game, chd_files)
    ELSE w

\* The discs found for one series.
FoundNumbers(w, base_game) == DiscNumbers(w.gs[base_game])

\* One round of the loop of check_for_incomplete_series.
CheckOneSeries(w, base_game, min_discs, expected_max_discs, force_scan, chd_files) ==
    CheckFound(CheckSearch(w, base_game, min_discs, force_scan, chd_files), base_game,
               FoundNumbers(CheckSearch(w, base_game, min_discs, force_scan, chd_files),
                            base_game),
               min_discs, expected_max_discs)

RECURSIVE CheckEachSeries(_, _, _, _, _, _)
CheckEachSeries(w, titles, min_discs, expected_max_discs, force_scan, chd_files) ==
    IF Len(titles) = 0 \/ w.raised THEN w
    ELSE CheckEachSeries(
             CheckOneSeries(w, titles[1], min_discs, expected_max_discs, force_scan, chd_files),
             Tail(titles), min_discs, expected_max_discs, force_scan, chd_files)

\* "if updated_playlists: self._save_state()"
SaveIfUpdated(w) == IF w.result # {} /\ ~w.raised THEN SaveState(w) ELSE w

\* check_for_incomplete_series after its scan.
CheckScanned(w, min_discs, expected_max_discs, force_scan, chd_files) ==
    SaveIfUpdated(CheckEachSeries([w EXCEPT !.result = {}], SetToSeq(DOMAIN w.gs),
                                  min_discs, expected_max_discs, force_scan, chd_files))

\* check_for_incomplete_series, the output directory existing.
CheckForIncompleteSeriesOp(w, min_discs, expected_max_discs, force_scan, chd_files) ==
    CheckScanned(IF force_scan THEN ScanDirectoryOp(w, FALSE, chd_files) ELSE w,
                 min_discs, expected_max_discs, force_scan, chd_files)

\* The titles of a list of paths in the order they first occur (the keys of
\* game_groups), and the discs of one title in the order given.
RECURSIVE GroupTitles(_, _)
GroupTitles(paths, seen) ==
    IF Len(paths) = 0 THEN <<>>
    ELSE IF /\ HasDisc(ParseFile(paths[1].name))
            /\ ParseFile(paths[1].name).base \notin seen
         THEN <<ParseFile(paths[1].name).base>>
              \o GroupTitles(Tail(paths), seen \cup {ParseFile(paths[1].name).base})
         ELSE GroupTitles(Tail(paths), seen)

GroupOf(paths, base_game) ==
    SelectSeq(paths, LAMBDA q : HasDisc(ParseFile(q.name)) /\ ParseFile(q.name).base = base_game)

RECURSIVE AddGroup(_, _, _)
AddGroup(w, base_game, discs) ==
    IF Len(discs) = 0 THEN w
    ELSE AddGroup(AddToGameSeries(w, base_game, discs[1], ParseFile(discs[1].name).disc),
                  base_game, Tail(discs))

\* "del self.series_signatures[base_game]"
ForgetSignature(w, base_game) ==
    [w EXCEPT !.sigs = [t \in (DOMAIN w.sigs) \ {base_game} |-> w.sigs[t]]]

\* highest_processed = max(d for _, d in discs)
HighestProcessed(discs) == MaxOf({ParseFile(discs[i].name).disc : i \in 1..Len(discs)})

\* One round of the loop of register_multiple_discs over game_groups.items().
UpdateGroup(w, base_game, update_playlists, highest_processed) ==
    IF w.raised THEN w
    ELSE MaybeUpdatePlaylist(w, base_game, update_playlists, highest_processed)

RegisterGroup(w, base_game, discs, update_playlists, chd_files) ==
    UpdateGroup(
        FindRelatedDiscs(AddGroup(ForgetSignature(w, base_game), base_game, discs),
                         base_game, chd_files),
        base_game, update_playlists, HighestProcessed(discs))

RECURSIVE RegisterGroups(_, _, _, _, _)
RegisterGroups(w, titles, paths, update_playlists, chd_files) ==
    IF Len(titles) = 0 \/ w.raised THEN w
    ELSE RegisterGroups(
             RegisterGroup(w, titles[1], GroupOf(paths, titles[1]), update_playlists, chd_files),
             Tail(titles), paths, update_playlists, chd_files)

\* "self._save_state()" at the end of an operation no exception left.
SaveUnlessRaised(w) == IF w.raised THEN w ELSE SaveState(w)

\* register_multiple_discs (its second loop, over the files without a disc number,
\* parses them again and adds nothing).
RegisterMultipleDiscsOp(w, chd_paths, update_playlists, chd_files) ==
    SaveUnlessRaised(RegisterGroups(w, GroupTitles(chd_paths, {}), chd_paths,
                                    update_playlists, chd_files))

\* One entry of a playlist in _scan_existing_playlists.
AddPlaylistEntry(w, base_game, chd_path, parsed) ==
    IF HasDisc(parsed) THEN AddToGameSeries(w, base_game, chd_path, parsed.disc) ELSE w

\* The discs _scan_existing_playlists adds for the entries of one playlist.
RECURSIVE AddPlaylistEntries(_, _, _)
AddPlaylistEntries(w, base_game, entries) ==
    IF Len(entries) = 0 THEN w
    ELSE AddPlaylistEntries(
             AddPlaylistEntry(w, base_game, PathOf(entries[1]),
                              ParseFile(PathOf(entries[1]).name)),
             base_game, Tail(entries))

\* One playlist file in _scan_existing_playlists.
ScanPlaylist(w, stem, chd_entries) ==
    IF Len(chd_entries) > 1
    THEN AddPlaylistEntries(
             [w EXCEPT !.created = w.created \cup {stem},
                       !.custom  = IF HasMarker(w.m3u[stem]) THEN w.custom
                                   ELSE w.custom \cup {stem}],
             stem, chd_entries)
    ELSE [w EXCEPT !.created = w.created \cup {stem},
                   !.custom  = IF HasMarker(w.m3u[stem]) THEN w.custom
                               ELSE w.custom \cup {stem}]

\* _scan_existing_playlists over the playlist files stems.
RECURSIVE ScanExistingPlaylists(_, _)
ScanExistingPlaylists(w, stems) ==
    IF Len(stems) = 0 THEN w
    ELSE ScanExistingPlaylists(ScanPlaylist(w, stems[1], ReadM3uFile(w.m3u[stems[1]])),
                               Tail(stems))

\* cleanup
CleanupOp(w) == [SaveState(w) EXCEPT !.recent = {}]

\* missing_discs of get_series_status
MissingDiscs(disc_nums) ==
    IF disc_nums = {} THEN {} ELSE {i \in 1..MaxOf(disc_nums) : i \notin disc_nums}

\* "is_complete" of get_series_status for a series that has discs
StatusIsComplete(disc_nums) ==
    MissingDiscs(disc_nums) = {} /\ disc_nums # {} /\ 1 \in disc_nums

\* get_series_status
GetSeriesStatus(w) ==
    [t \in DOMAIN w.gs |->
        [disc_count    |-> Len(w.gs[t]),
         disc_numbers  |-> DiscNumbers(w.gs[t]),
         has_playlist  |-> CleanFilename(t) \in w.created,
         is_customized |-> CleanFilename(t) \in w.custom,
         missing_discs |-> MissingDiscs(DiscNumbers(w.gs[t])),
         is_complete   |-> StatusIsComplete(DiscNumbers(w.gs[t]))]]

(***************************************************************************)
(* The state machine.                                                      *)
(***************************************************************************)
VARIABLES
    chdFiles,           \* the names of the .chd files in the output directory
    m3u,                \* the playlist files of the output directory, by stem
    bak,                \* the .m3u.bak files, by stem
    stateFile,          \* playlist_state.json
    game_series,        \* self.game_series: title -> discs
    series_signatures,  \* self.series_signatures: title -> signature
    created_playlists,  \* self.created_playlists
    user_customized,    \* self.user_customized
    recently_updated,   \* self.recently_updated
    lastOp,             \* the last operation: its arguments and what it did
    userMade,           \* the stems of the playlists a user wrote
    hist,               \* the files registered so far (kept by SpecRegister only)
    given,              \* what the function under check is handed: the name the
                        \* parser gets (SpecNames), the command line and the typed
                        \* answers (SpecPrompt)
    fs,                 \* the kinds of the paths confirm_path looks at
    conv,               \* the converter and its extractor: the batch at work, where
                        \* each convert_file stands, extractor.processed_games
    steps               \* the number of operations so far

vars == <<chdFiles, m3u, bak, stateFile, game_series, series_signatures,
          created_playlists, user_customized, recently_updated, lastOp,
          userMade, hist, given, steps, names, fs, conv>>

\* The world an operation starts in.
World ==
    [gs |-> game_series, sigs |-> series_signatures, created |-> created_playlists,
     custom |-> user_customized, recent |-> recently_updated,
     m3u |-> m3u, bak |-> bak, sf |-> stateFile,
     wrote |-> {}, called |-> {}, ret |-> "none", result |-> {},
     managed |-> {}, raised |-> FALSE, fail |-> "none", failed |-> {}]

\* The titles whose tracked discs w holds and v does not hold alike.
Grown(gs, w) ==
    {t \in DOMAIN w.gs : t \notin DOMAIN gs \/ gs[t] # w.gs[t]}

\* The playlist files that w holds and files does not hold alike.
ChangedFiles(files, w) ==
    {s \in DOMAIN w.m3u : s \notin DOMAIN files \/ files[s] # w.m3u[s]}

\* w holds the series, the signatures, the two sets of titles, the playlist
\* files, the backups and the state file as they are now.
Untouched(w) ==
    /\ w.gs = game_series
    /\ w.sigs = series_signatures
    /\ w.created = created_playlists
    /\ w.custom = user_customized
    /\ w.m3u = m3u
    /\ w.bak = bak
    /\ w.sf = stateFile

\* The world w an operation op(arg) ends in becomes the next state; lastOp keeps
\* what the operation was given and what it did.
Becomes(w, op, arg) ==
    /\ game_series' = w.gs
    /\ series_signatures' = w.sigs
    /\ created_playlists' = w.created
    /\ user_customized' = w.custom
    /\ recently_updated' = w.recent
    /\ m3u' = w.m3u
    /\ bak' = w.bak
    /\ stateFile' = w.sf
    /\ lastOp' = [op |-> op, arg |-> arg, wrote |-> w.wrote, called |-> w.called,
                  ret |-> w.ret, result |-> w.result,
                  grown |-> Grown(game_series, w),
                  hadSig |-> DOMAIN series_signatures,
                  changed |-> ChangedFiles(m3u, w),
                  managed |-> w.managed, raised |-> w.raised, failed |-> w.failed,
                  hadCustom |-> user_customized,
                  same |-> Untouched(w)]
    /\ steps' = steps + 1

NoOp == [op |-> "none", arg |-> <<>>, wrote |-> {}, called |-> {}, ret |-> "none",
         result |-> {}, grown |-> {}, hadSig |-> {}, changed |-> {},
         managed |-> {}, raised |-> FALSE, failed |-> {}, hadCustom |-> {},
         same |-> TRUE]

\* The output directories a first run may find: some disc images of earlier
\* conversions.
InitialDirs == {{FileTable[i] : i \in 1..n} : n \in 0..MaxInitFiles}

\* No path is looked at.
NoPaths == EmptyDict

\* A new Converter with a new Extractor, nothing converted: no batch at work,
\* processed_games and completed_game_series empty, chdman never run.
\* No convert_file or extract_archive is waiting for memory.
NoWait ==
    [of |-> "none", pc |-> "idle", snapshots |-> <<>>, read |-> 0,
     memory_percent |-> 0, retry_count |-> 0, slept |-> 0]

NoConversion ==
    [phase |-> "idle", batch |-> <<>>, workers |-> 0, pc |-> <<>>, ret |-> <<>>,
     processed_games |-> EmptyDict, completed |-> {},
     runs |-> EmptyDict, late |-> {}, byWorker |-> FALSE, wait |-> NoWait]

\* An output directory with some disc images and, possibly, a playlist a user
\* wrote for Foo; a new manager without a state file.
Init ==
    /\ chdFiles \in InitialDirs
    /\ m3u \in {EmptyDict, SetKey(EmptyDict, Foo, UserPlaylist)}
    /\ bak = EmptyDict
    /\ stateFile = NoFile
    /\ game_series = EmptyDict
    /\ series_signatures = EmptyDict
    /\ created_playlists = {}
    /\ user_customized = {}
    /\ recently_updated = {}
    /\ lastOp = NoOp
    /\ userMade = DOMAIN m3u
    /\ hist = <<>>
    /\ given = <<>>
    /\ steps = 0
    /\ names = NameTables
    /\ fs = NoPaths
    /\ conv = NoConversion

\* A conversion leaves the disc image f in the output directory.
Convert(f) ==
    /\ steps < MaxSteps
    /\ f \notin chdFiles
    /\ chdFiles' = chdFiles \cup {f}
    /\ lastOp' = [NoOp EXCEPT !.op = "convert", !.arg = f]
    /\ steps' = steps + 1
    /\ UNCHANGED <<m3u, bak, stateFile, game_series, series_signatures,
                   created_playlists, user_customized, recently_updated, userMade, hist,
                   names, given, fs, conv>>

\* register_disc(chd_path, update_playlists)
RegisterDisc(chd_path, update_playlists) ==
    /\ steps < MaxSteps
    /\ \E chd_files \in Listings(chdFiles) :
          Becomes(RegisterDiscOp(World, chd_path, update_playlists, chd_files),
                  "register_disc",
                  [path |-> chd_path, update_playlists |-> update_playlists,
                   parsed |-> ParseFile(chd_path.name)])
    /\ UNCHANGED <<chdFiles, userMade, hist, names, given, fs, conv>>

\* register_multiple_discs(chd_paths, update_playlists)
RegisterMultipleDiscs(chd_paths, update_playlists) ==
    /\ steps < MaxSteps
    /\ \E chd_files \in Listings(chdFiles) :
          Becomes(RegisterMultipleDiscsOp(World, chd_paths, update_playlists, chd_files),
                  "register_multiple_discs",
                  [paths |-> chd_paths, update_playlists |-> update_playlists])
    /\ UNCHANGED <<chdFiles, userMade, hist, names, given, fs, conv>>

\* scan_directory(update_all=update_all)
ScanDirectory(update_all) ==
    /\ steps < MaxSteps
    /\ \E chd_files \in Listings(chdFiles) :
          Becomes(ScanDirectoryOp(World, update_all, chd_files),
                  "scan_directory", [update_all |-> update_all])
    /\ UNCHANGED <<chdFiles, userMade, hist, names, given, fs, conv>>

\* check_for_incomplete_series(min_discs, expected_max_discs, force_scan)
CheckForIncompleteSeries(min_discs, expected_max_discs, force_scan) ==
    /\ steps < MaxSteps
    /\ \E chd_files \in Listings(chdFiles) :
          Becomes(CheckForIncompleteSeriesOp(World, min_discs, expected_max_discs,
                                             force_scan, chd_files),
                  "check_for_incomplete_series",
                  [min_discs |-> min_discs, expected_max_discs |-> expected_max_discs,
                   force_scan |-> force_scan])
    /\ UNCHANGED <<chdFiles, userMade, hist, names, given, fs, conv>>

\* update_playlist(base_game); repeat tells that the operation before was the
\* same call, and prevWrote whether that one wrote the file.
CallUpdatePlaylist(base_game) ==
    /\ steps < MaxSteps
    /\ LET repeat == lastOp.op = "update_playlist" /\ lastOp.arg.base_game = base_game
       IN  Becomes(UpdatePlaylist(World, base_game), "update_playlist",
                   [base_game |-> base_game, repeat |-> repeat,
                    prevWrote |-> repeat /\ lastOp.wrote # {}])
    /\ UNCHANGED <<chdFiles, userMade, hist, names, given, fs, conv>>

\* set_output_directory(output_dir) with the directory the manager already has.
SetOutputDirectory ==
    /\ steps < MaxSteps
    /\ Becomes(ScanExistingPlaylists(World, SetToSeq(DOMAIN m3u)),
               "set_output_directory", <<>>)
    /\ UNCHANGED <<chdFiles, userMade, hist, names, given, fs, conv>>

\* The run ends, with cleanup() (clean) or interrupted, and the next run builds
\* its manager: PlaylistManager(output_dir, state_file).  before is the manager
\* the run ended with.
NewRun(clean) ==
    /\ steps < MaxSteps
    /\ LET w == IF clean THEN CleanupOp(World) ELSE World
       IN  Becomes(LoadState(FreshManager(w)), "new_run",
                   [clean |-> clean,
                    before |-> [gs |-> w.gs, sigs |-> w.sigs,
                                created |-> w.created, custom |-> w.custom]])
    /\ UNCHANGED <<chdFiles, userMade, hist, names, given, fs, conv>>

\* The paths register_disc is called with: a disc image of the output directory,
\* or a disc image in another directory.
OtherFiles == {FileTable[i] : i \in 1..MaxOtherFiles}

RegisterPaths ==
    {PathIn(OutputDir, f) : f \in chdFiles} \cup {PathIn(OtherDir, f) : f \in OtherFiles}

\* The lists register_multiple_discs is called with.
RegisterLists ==
    UNION {{ps \in [1..n -> {PathIn(OutputDir, f) : f \in chdFiles}] :
               \A i, j \in 1..n : ps[i] = ps[j] => i = j} : n \in 1..MaxBatch}

\* The defaults of check_for_incomplete_series, and one more value of each.
DefaultMinDiscs == 2
DefaultMaxDiscs == 6
CheckArguments ==
    { <<DefaultMinDiscs, DefaultMaxDiscs, FALSE>>,
      <<DefaultMinDiscs, DefaultMaxDiscs, TRUE>>,
      <<DefaultMinDiscs + 1, DefaultMaxDiscs, FALSE>>,
      <<DefaultMinDiscs, DefaultMinDiscs, FALSE>> }

Next ==
    \/ \E f \in Files : Convert(f)
    \/ \E p \in RegisterPaths, u \in BOOLEAN : RegisterDisc(p, u)
    \/ \E ps \in RegisterLists, u \in BOOLEAN : RegisterMultipleDiscs(ps, u)
    \/ \E u \in BOOLEAN : ScanDirectory(u)
    \/ \E a \in CheckArguments : CheckForIncompleteSeries(a[1], a[2], a[3])
    \/ \E t \in Titles : CallUpdatePlaylist(t)
    \/ SetOutputDirectory
    \/ \E c \in BOOLEAN : NewRun(c)

Spec == Init /\ [][Next]_vars

\* The operations a run makes on a manager it constructs with
\* PlaylistManager(output_dir, state_file), as convert.py does: the run never
\* calls set_output_directory.
NextDriver ==
    \/ \E f \in Files : Convert(f)
    \/ \E p \in RegisterPaths, u \in BOOLEAN : RegisterDisc(p, u)
    \/ \E u \in BOOLEAN : ScanDirectory(u)
    \/ \E a \in CheckArguments : CheckForIncompleteSeries(a[1], a[2], a[3])
    \/ \E t \in Titles : CallUpdatePlaylist(t)
    \/ \E c \in BOOLEAN : NewRun(c)

SpecDriver == Init /\ [][NextDriver]_vars

\* A conversion leaves f in the output directory and the file is registered at
\* once, playlists being updated: register_disc(output_dir / f).
ConvertAndRegister(f) ==
    /\ steps < MaxSteps
    /\ f \notin chdFiles
    /\ chdFiles' = chdFiles \cup {f}
    /\ \E chd_files \in Listings(chdFiles \cup {f}) :
          Becomes(RegisterDiscOp(World, PathIn(OutputDir, f), TRUE, chd_files),
                  "register_disc",
                  [path |-> PathIn(OutputDir, f), update_playlists |-> TRUE,
                   parsed |-> ParseFile(f)])
    /\ hist' = Append(hist, f)
    /\ UNCHANGED <<userMade, names, given, fs, conv>>

\* An empty output directory and a new manager.
InitEmpty ==
    /\ Init
    /\ chdFiles = {}
    /\ m3u = EmptyDict

NextRegister == \E f \in Files : ConvertAndRegister(f)

SpecRegister == InitEmpty /\ [][NextRegister]_vars

OddParseTable == [f \in OddFiles |-> ExtractBaseNameAndDisc(PathStem(f))]

OddRelatedTable == [t \in TitlesOf(OddParseTable) |-> [f \in OddFiles |-> RelatedDisc(t, f)]]

OddTables ==
    [parse   |-> OddParseTable,
     related |-> OddRelatedTable,
     claims  |-> ClaimsFrom(OddParseTable, OddRelatedTable)]

\* An output directory that holds some of these files, and a new manager.
InitOdd ==
    /\ chdFiles \in SUBSET OddFiles
    /\ m3u = EmptyDict
    /\ bak = EmptyDict
    /\ stateFile = NoFile
    /\ game_series = EmptyDict
    /\ series_signatures = EmptyDict
    /\ created_playlists = {}
    /\ user_customized = {}
    /\ recently_updated = {}
    /\ lastOp = NoOp
    /\ userMade = {}
    /\ hist = <<>>
    /\ given = <<>>
    /\ steps = 0
    /\ names = OddTables
    /\ fs = NoPaths
    /\ conv = NoConversion

NextOdd ==
    \/ \E f \in chdFiles, u \in BOOLEAN : RegisterDisc(PathIn(OutputDir, f), u)
    \/ \E u \in BOOLEAN : ScanDirectory(u)

SpecOdd == InitOdd /\ [][NextOdd]_vars

\* The ways a playlist write fails, and the ways a state file is damaged.
Failures == {"open", "write"}
Damages == {"syntax", "created_playlists", "user_customized"}

\* scan_directory(update_all=update_all) while every write of a playlist file
\* fails with OSError in the way fail tells.
ScanDirectoryFailing(update_all, fail) ==
    /\ steps < MaxSteps
    /\ \E chd_files \in Listings(chdFiles) :
          Becomes(ScanDirectoryOp([World EXCEPT !.fail = fail], update_all, chd_files),
                  "scan_directory", [update_all |-> update_all, fail |-> fail])
    /\ UNCHANGED <<chdFiles, userMade, hist, names, given, fs, conv>>

\* The run is interrupted, the state file it leaves is damaged in the way damage
\* tells, and the next run builds its manager:
\* PlaylistManager(output_dir, state_file).
DamagedRun(damage) ==
    /\ steps < MaxSteps
    /\ stateFile.exists
    /\ Becomes(LoadState(FreshManager([World EXCEPT !.sf.damage = damage])),
               "damaged_run", [damage |-> damage])
    /\ UNCHANGED <<chdFiles, userMade, hist, names, given, fs, conv>>

NextFaults ==
    \/ SetOutputDirectory
    \/ \E u \in BOOLEAN : ScanDirectory(u)
    \/ \E u \in BOOLEAN, fail \in Failures : ScanDirectoryFailing(u, fail)
    \/ \E c \in BOOLEAN : NewRun(c)
    \/ \E damage \in Damages : DamagedRun(damage)

SpecFaults == Init /\ [][NextFaults]_vars

\* The names the parser is tried on: a title, with a dot in it or without,
\* followed by up to two disc markers of the kinds the patterns know, each with
\* a number of its own, and then by nothing or by more of the title.
NameStems == { Foo, <<"D", "r", ".", " ">> \o Foo }

NameMarkers ==
    { <<>>,
      <<" ", "(", "D", "i", "s", "c", " ", "1", ")">>,
      <<" ", "C", "D", "2">>,
      <<" ", "D", "i", "s", "k", " ", "3">>,
      <<" ", "V", "o", "l", "u", "m", "e", " ", "4">>,
      <<" ", "V", "o", "l", " ", "5">>,
      <<" ", "D", "6">>,
      <<" ", "-", " ", "7">> }

\* What may follow the markers: nothing, or more of the title.
NameTails == { <<>>, <<" ">> \o Bar }

NameSet ==
    {t \o a \o b \o e : t \in NameStems, a \in NameMarkers, b \in NameMarkers, e \in NameTails}

\* A name to parse, and a new manager.
InitNames ==
    /\ given \in NameSet
    /\ chdFiles = {}
    /\ m3u = EmptyDict
    /\ bak = EmptyDict
    /\ stateFile = NoFile
    /\ game_series = EmptyDict
    /\ series_signatures = EmptyDict
    /\ created_playlists = {}
    /\ user_customized = {}
    /\ recently_updated = {}
    /\ lastOp = NoOp
    /\ userMade = {}
    /\ hist = <<>>
    /\ steps = 0
    /\ names = NameTables
    /\ fs = NoPaths
    /\ conv = NoConversion

\* _extract_base_name_and_disc(given)
ParseName ==
    /\ lastOp.op = "none"
    /\ lastOp' = [NoOp EXCEPT !.op = "parse", !.arg = ExtractBaseNameAndDisc(given)]
    /\ steps' = steps + 1
    /\ UNCHANGED <<chdFiles, m3u, bak, stateFile, game_series, series_signatures,
                   created_playlists, user_customized, recently_updated, userMade, hist,
                   names, given, fs, conv>>

NextNames == ParseName

SpecNames == InitNames /\ [][NextNames]_vars

(***************************************************************************)
(* The properties.                                                         *)
(***************************************************************************)
Disc1 == DiscFile(Foo, "1")
Disc2 == DiscFile(Foo, "2")
Disc3 == DiscFile(Foo, "3")

\* t begins with the lines of s, unchanged and in their order.
IsPrefix(s, t) == Len(s) <= Len(t) /\ \A i \in 1..Len(s) : t[i] = s[i]

\* The lines of a playlist that are neither blank nor a comment.
EntryLines(lines) == SelectSeq(lines, LAMBDA l : Len(l) > 0 /\ l[1] # "#")

\* The entry lines of a playlist of the discs 1, 2, 3 of Foo in the output
\* directory.
ThreeDiscs ==
    << StandardEntry(<<PathIn(OutputDir, Disc1), 1>>),
       StandardEntry(<<PathIn(OutputDir, Disc2), 2>>),
       StandardEntry(<<PathIn(OutputDir, Disc3), 3>>) >>

\* C1 (as the specification states it): a playlist a user wrote, which lacks the
\* marker, keeps every original line, unchanged and in the original order,
\* whatever construction, register_disc, scan_directory, update_playlist and
\* check_for_incomplete_series calls follow; entries are only appended.
C1_UserLinesKept ==
    \A s \in userMade : s \in DOMAIN m3u /\ IsPrefix(UserPlaylist, m3u[s])

\* C2 (as the specification states it): after register_disc, playlists updated,
\* of Foo (Disc 2), Foo (Disc 1), Foo (Disc 3) in that order, each file present
\* from its own registration on, Foo.m3u lists the three discs in the order 1, 2, 3.
C2_AllThreeListed ==
    hist = <<Disc2, Disc1, Disc3>> =>
        Foo \in DOMAIN m3u /\ EntryLines(m3u[Foo]) = ThreeDiscs

\* C3 (as the specification states it): registering the discs 2, 1, 3 in that
\* order, no playlist of the title exists before disc 3 is registered.
C3_NoPlaylistBeforeDisc3 ==
    hist = <<Disc2, Disc1>> => Foo \notin DOMAIN m3u

\* C3 (amended): registering the discs 2, 1, 3 in that order, no playlist of the
\* title exists before disc 1 is registered, and the registration of disc 1,
\* after which the tracked discs {1, 2} are complete, creates it.
C3_PlaylistCreatedAtDisc1 ==
    /\ hist = <<Disc2>> => Foo \notin DOMAIN m3u
    /\ hist = <<Disc2, Disc1>> =>
          /\ Foo \in DOMAIN m3u
          /\ lastOp.changed = {Foo}
          /\ DiscNumbers(game_series[Foo]) = {1, 2}
    /\ (Len(hist) = 3 /\ hist[1] = Disc2 /\ hist[2] = Disc1) => Foo \in DOMAIN m3u

C3_Witness ==
    hist = <<Disc2, Disc1, Disc3>> /\ Foo \in DOMAIN m3u

\* C4 (as the specification states it): has_series_changed(title) is true after
\* register_disc added a disc to a title that had a saved signature, the title
\* not being updated in the current run.
C4_AddedDiscMakesChanged ==
    (/\ lastOp.op = "register_disc"
     /\ HasDisc(lastOp.arg.parsed)
     /\ lastOp.arg.parsed.base \in lastOp.grown \cap lastOp.hadSig
     /\ lastOp.arg.parsed.base \notin recently_updated)
    => HasSeriesChanged(World, lastOp.arg.parsed.base).changed

\* C5: the second of two update_playlist calls in a row for one title, the disc
\* list being the same for both, writes no file: every playlist is byte for byte
\* what it was.
C5_SecondUpdateWritesNothing ==
    (lastOp.op = "update_playlist" /\ lastOp.arg.repeat) =>
        lastOp.wrote = {} /\ lastOp.changed = {}

C5_Witness ==
    /\ lastOp.op = "update_playlist"
    /\ lastOp.arg.repeat
    /\ lastOp.arg.prevWrote
    /\ CleanFilename(lastOp.arg.base_game) \in DOMAIN m3u
    /\ HasMarker(m3u[CleanFilename(lastOp.arg.base_game)])
    /\ lastOp.ret = "path"

\* The paths and disc numbers _add_to_game_series is tried with.
AddPaths ==
    {PathIn(OutputDir, f) : f \in Files} \cup {PathIn(OtherDir, f) : f \in OtherFiles}

\* C6: _add_to_game_series called a second time with the same title, path and
\* index leaves the disc list and the signature as the first call left them, and
\* the call changes nothing when the path or the index is tracked for the title.
C6_AddIsIdempotent ==
    \A t \in Titles, p \in AddPaths, n \in 1..MaxDisc :
        /\ AddToGameSeries(AddToGameSeries(World, t, p, n), t, p, n)
              = AddToGameSeries(World, t, p, n)
        /\ (\E i \in 1..Len(DiscsOf(World, t)) :
               DiscsOf(World, t)[i][1] = p \/ DiscsOf(World, t)[i][2] = n)
           => AddToGameSeries(World, t, p, n) = World

C6_Witness ==
    \E t \in lastOp.grown :
        \E i \in 1..Len(game_series[t]) :
            /\ game_series[t][i][1].parent = OutputDir
            /\ AddToGameSeries(World, t, PathIn(OtherDir, game_series[t][i][1].name),
                               game_series[t][i][2]) = World

\* C7: after any sequence of register_disc, register_multiple_discs,
\* scan_directory and check_for_incomplete_series calls, the discs of every title
\* have distinct indices and distinct paths and are in ascending order of index.
C7_SeriesDistinctAndSorted ==
    \A t \in DOMAIN game_series :
        \A i, j \in 1..Len(game_series[t]) :
            i < j => /\ game_series[t][i][2] < game_series[t][j][2]
                     /\ game_series[t][i][1] # game_series[t][j][1]

\* A listed file with the disc number 2 of Foo is left out because the index is
\* tracked for another file.
C7_Witness ==
    /\ Foo \in DOMAIN game_series
    /\ Len(game_series[Foo]) >= 3
    /\ lastOp.op \in {"register_disc", "register_multiple_discs", "scan_directory",
                      "check_for_incomplete_series"}
    /\ \E f \in chdFiles :
          /\ HasDisc(ParseFile(f))
          /\ ParseFile(f).base = Foo
          /\ \A i \in 1..Len(game_series[Foo]) : game_series[Foo][i][1].name # f

\* C8: the state saved and loaded into a new manager gives equal series, an equal
\* created_playlists, an equal user_customized and equal signatures, and an empty
\* recently_updated.
C8_SaveLoadRoundTrip ==
    (lastOp.op = "new_run" /\ lastOp.arg.clean) =>
        /\ game_series = lastOp.arg.before.gs
        /\ series_signatures = lastOp.arg.before.sigs
        /\ created_playlists = lastOp.arg.before.created
        /\ user_customized = lastOp.arg.before.custom
        /\ recently_updated = {}

C8_Witness ==
    /\ lastOp.op = "new_run"
    /\ lastOp.arg.clean
    /\ \E t \in DOMAIN game_series : Len(game_series[t]) >= 2
    /\ created_playlists # {}
    /\ DOMAIN series_signatures # {}

\* C9: for a set of disc indices, each at least 1, the completeness test of
\* register_disc and scan_directory and is_complete of get_series_status are true
\* exactly when the set is {1, ..., highest index}.
C9_CompleteIffInitialSegment ==
    /\ \A S \in (SUBSET (1..MaxDisc)) \ {{}} :
          /\ IsComplete(S) <=> (S = 1..MaxOf(S))
          /\ StatusIsComplete(S) <=> (S = 1..MaxOf(S))
    /\ \A t \in DOMAIN game_series :
          (/\ DiscNumbers(game_series[t]) # {}
           /\ \A n \in DiscNumbers(game_series[t]) : n >= 1)
          => /\ IsComplete(DiscNumbers(game_series[t]))
                   <=> (DiscNumbers(game_series[t]) = 1..MaxOf(DiscNumbers(game_series[t])))
             /\ GetSeriesStatus(World)[t].is_complete
                   <=> (DiscNumbers(game_series[t]) = 1..MaxOf(DiscNumbers(game_series[t])))

C9_Witness ==
    /\ \E t \in DOMAIN game_series :
          /\ DiscNumbers(game_series[t]) = {1, 3}
          /\ ~GetSeriesStatus(World)[t].is_complete
          /\ ~IsComplete(DiscNumbers(game_series[t]))
    /\ IsComplete({1, 2, 3})
    /\ ~IsComplete({2, 3})

\* C10: register_disc calls update_playlist, for the parsed title alone, exactly
\* when update_playlists is set and, the disc inserted and the related discs
\* found, the title has at least 2 discs and they are complete or the disc
\* registered has the highest index; otherwise no playlist file is created or
\* modified.
C10_RegisterUpdatesExactlyWhen ==
    lastOp.op = "register_disc" =>
        IF ~HasDisc(lastOp.arg.parsed)
        THEN lastOp.called = {} /\ lastOp.changed = {} /\ lastOp.wrote = {}
        ELSE /\ lastOp.called \subseteq {lastOp.arg.parsed.base}
             /\ (lastOp.called = {lastOp.arg.parsed.base})
                <=> (/\ lastOp.arg.update_playlists
                     /\ Len(game_series[lastOp.arg.parsed.base]) >= 2
                     /\ \/ DiscNumbers(game_series[lastOp.arg.parsed.base])
                             = 1..MaxOf(DiscNumbers(game_series[lastOp.arg.parsed.base]))
                        \/ lastOp.arg.parsed.disc
                             = MaxOf(DiscNumbers(game_series[lastOp.arg.parsed.base])))
             /\ (lastOp.called = {} => lastOp.changed = {} /\ lastOp.wrote = {})
             /\ lastOp.changed \subseteq {CleanFilename(lastOp.arg.parsed.base)}

\* register_disc of the highest disc of a series with a gap writes the playlist.
C10_Witness ==
    /\ lastOp.op = "register_disc"
    /\ HasDisc(lastOp.arg.parsed)
    /\ lastOp.called = {lastOp.arg.parsed.base}
    /\ lastOp.changed = {CleanFilename(lastOp.arg.parsed.base)}
    /\ DiscNumbers(game_series[lastOp.arg.parsed.base])
          # 1..MaxOf(DiscNumbers(game_series[lastOp.arg.parsed.base]))

\* The titles of two discs or more, and whether the discs of a title are the
\* numbers from 1 to the highest one.
TwoOrMore == {t \in DOMAIN game_series : Len(game_series[t]) >= 2}

Gapless(t) ==
    DiscNumbers(game_series[t]) = 1..MaxOf(DiscNumbers(game_series[t]))

\* C11: scan_directory calls update_playlist for exactly the tracked titles of two
\* discs or more that are complete, or all of them when update_all is set; when
\* update_all is not set, the playlist of no incomplete title is created or
\* modified.
C11_ScanUpdatesExactlyWhen ==
    lastOp.op = "scan_directory" =>
        /\ lastOp.called = {t \in TwoOrMore : lastOp.arg.update_all \/ Gapless(t)}
        /\ ~lastOp.arg.update_all =>
              \A t \in DOMAIN game_series :
                  ~Gapless(t) => CleanFilename(t) \notin lastOp.changed \cup lastOp.wrote

\* A scan without update_all leaves out a title of two discs with a gap.
C11_Witness ==
    /\ lastOp.op = "scan_directory"
    /\ ~lastOp.arg.update_all
    /\ \E t \in TwoOrMore : ~Gapless(t) /\ t \notin lastOp.called
                             /\ CleanFilename(t) \notin DOMAIN m3u

\* The titles that pass the test the sweep is described by: at least min_discs
\* discs, the highest number at most expected_max_discs, and no number below the
\* highest that is missing while its successor is there.
SweepTitles(min_discs, expected_max_discs) ==
    {t \in DOMAIN game_series :
        /\ Len(game_series[t]) >= min_discs
        /\ MaxOf(DiscNumbers(game_series[t])) <= expected_max_discs
        /\ ~\E i \in 1..(MaxOf(DiscNumbers(game_series[t])) - 1) :
               /\ i \notin DiscNumbers(game_series[t])
               /\ (i + 1) \in DiscNumbers(game_series[t])}

\* The playlist lines has an entry of every disc of the list discs.
ListsDiscs(lines, discs) ==
    \A i \in 1..Len(discs) :
        \E k \in 1..Len(lines) : IsPrefix(EntryText(discs[i]), lines[k])

\* C12 (as the specification states it): check_for_incomplete_series calls
\* update_playlist for exactly the tracked titles that have at least min_discs
\* discs, a highest number of at most expected_max_discs and no missing number
\* whose successor is there; for a title whose discs are 1 and 2 and min_discs = 2
\* the result holds the title and its playlist lists both discs.
C12_SweepUpdatesExactlyWhen ==
    lastOp.op = "check_for_incomplete_series" =>
        /\ lastOp.called = SweepTitles(lastOp.arg.min_discs, lastOp.arg.expected_max_discs)
        /\ \A t \in DOMAIN game_series :
              (/\ DiscNumbers(game_series[t]) = {1, 2}
               /\ lastOp.arg.min_discs = 2
               /\ lastOp.arg.expected_max_discs >= 2)
              => /\ t \in lastOp.result
                 /\ CleanFilename(t) \in DOMAIN m3u
                 /\ ListsDiscs(m3u[CleanFilename(t)], game_series[t])

\* The name holds a disc marker: one of the parser's patterns matches in it.
CarriesMarker(name) ==
    \E i \in 1..Len(disc_patterns) : SearchFrom(name, 1, disc_patterns[i]) # 0

\* C13 (as the specification states it): register_disc of a file whose name has
\* no disc marker returns None and changes nothing, neither the series, the
\* signatures, the playlist files nor the state file; of a file whose name has a
\* disc marker it returns the parsed title.
C13_RegisterDiscReturn ==
    lastOp.op = "register_disc" =>
        IF CarriesMarker(PathStem(lastOp.arg.path.name))
        THEN /\ ~lastOp.raised
             /\ lastOp.result = {ExtractFrom(PathStem(lastOp.arg.path.name), 1).base}
        ELSE /\ ~lastOp.raised
             /\ lastOp.result = {}
             /\ lastOp.same

\* C16 (as the specification states it): register_disc and scan_directory return
\* normally, without raising, for every file name and every directory content,
\* also for a title that holds characters special in regular expressions and for
\* a series with missing discs.
C16_NeverRaises ==
    lastOp.op \in {"register_disc", "scan_directory"} => ~lastOp.raised

\* No series, no signature, no created and no customized title.
StoreEmpty ==
    /\ game_series = EmptyDict
    /\ series_signatures = EmptyDict
    /\ created_playlists = {}
    /\ user_customized = {}

\* C14 (as the specification states it): a manager constructed when the state
\* file is missing or damaged, in its syntax or in one of its fields, raises
\* nothing and has an empty store.
C14_DamagedStateGivesEmptyStore ==
    (lastOp.op = "damaged_run" \/ (lastOp.op = "new_run" /\ ~stateFile.exists)) =>
        ~lastOp.raised /\ StoreEmpty

\* The titles whose playlist has the stem s.
TitlesOfStem(s) == {t \in DOMAIN game_series : CleanFilename(t) = s}

\* C15 (as the specification states it): when the write of a title's playlist
\* fails, managed or customized, update_playlist returns no path (the title is
\* not in the result of scan_directory), the title is not marked as recently
\* updated, and nothing is raised.
C15_FailedWriteReturnsNone ==
    lastOp.op = "scan_directory" =>
        \A s \in lastOp.failed : \A t \in TitlesOfStem(s) :
            /\ ~lastOp.raised
            /\ t \notin lastOp.result
            /\ t \notin recently_updated

\* The playlist files that hold the marker line.
Marked(files) == {s \in DOMAIN files : HasMarker(files[s])}

\* C17: every playlist file an operation writes as managed holds the marker, a
\* file that holds the marker holds it after every later operation, in this run
\* and the next, and set_output_directory takes no file that holds the marker
\* into user_customized.
C17_ManagedIsNeverCustomized ==
    [][ /\ lastOp'.managed \subseteq Marked(m3u')
        /\ Marked(m3u) \subseteq Marked(m3u')
        /\ lastOp'.op = "set_output_directory" =>
              (user_customized' \ user_customized) \cap Marked(m3u) = {} ]_vars

\* set_output_directory has classified the playlists, one of them written by a
\* manager and not by a user: it holds the marker and is not customized.
C17_Witness ==
    /\ lastOp.op = "set_output_directory"
    /\ \E s \in Marked(m3u) : /\ s \notin userMade
                              /\ s \in created_playlists
                              /\ s \notin user_customized

\* The file names or paths a playlist of the discs is to list, in their order.
EntryTexts(discs) == [i \in 1..Len(discs) |-> EntryText(discs[i])]

\* C18 (as the specification states it): in a playlist file written as managed
\* every line that is neither blank nor a comment is the bare file name or the
\* path of one disc and nothing else, and _read_m3u_file gives back the file
\* names of the title's discs in their order.
C18_EntryLinesAreFileNames ==
    \A s \in lastOp.managed : \A t \in TitlesOfStem(s) :
        /\ EntryLines(m3u[s]) = EntryTexts(game_series[t])
        /\ ReadM3uFile(m3u[s]) = EntryTexts(game_series[t])

\* C19 (as the specification states it): for a name in which no pattern finds a
\* disc marker the parser returns the name unchanged and no disc number.
C19_NoMarkerGivesNameBack ==
    (lastOp.op = "parse" /\ ~CarriesMarker(given)) =>
        lastOp.arg = [base |-> given, disc |-> 0, found |-> FALSE]

\* The kind of marker each of the disc_patterns looks for: disc, cd, disk, volume,
\* vol, d with digits, a bare number.
PatternKind == <<"disc", "cd", "disk", "volume", "vol", "d", "d", "disc", "cd", "number">>

\* The patterns that find a marker in name, and the kinds of these markers.
MatchingPatterns(name) ==
    {i \in 1..Len(disc_patterns) : SearchFrom(name, 1, disc_patterns[i]) # 0}

KindsIn(name) == {PatternKind[i] : i \in MatchingPatterns(name)}

\* The number of the leftmost marker pattern number i finds in name.
NumberFound(name, i) ==
    IntOf(Slice(name,
                MatchAt(name, SearchFrom(name, 1, disc_patterns[i]), disc_patterns[i]).ds,
                MatchAt(name, SearchFrom(name, 1, disc_patterns[i]), disc_patterns[i]).de))

\* C20 (as the specification states it): for a name with markers of more than
\* one kind the parser returns the number of the marker of the kind that comes
\* first in the order of the patterns, wherever the markers stand in the name.
C20_HighestPriorityKindWins ==
    (lastOp.op = "parse" /\ Cardinality(KindsIn(given)) > 1) =>
        /\ lastOp.arg.found
        /\ lastOp.arg.disc = NumberFound(given, MinOf(MatchingPatterns(given)))

\* The entry lines _create_standard_playlist writes for the discs.
StandardEntries(discs) == [i \in 1..Len(discs) |-> StandardEntry(discs[i])]

\* The stem names a playlist that is not there, or one that holds the marker
\* and is not in user_customized.
ManagedOrMissing(stem) ==
    stem \notin DOMAIN m3u \/ (HasMarker(m3u[stem]) /\ stem \notin user_customized)

\* C27 (as the specification states it): after scan_directory(update_all=True)
\* the playlist of every tracked title of two discs or more, if it was managed
\* or missing before the scan, lists exactly the discs tracked after it, also
\* the disc this scan found for a title that had a playlist.
C27_ScanAllListsTrackedDiscs ==
    [][ (lastOp'.op = "scan_directory" /\ lastOp'.arg.update_all) =>
            \A t \in DOMAIN game_series' :
                (Len(game_series'[t]) >= 2 /\ ManagedOrMissing(CleanFilename(t))) =>
                    /\ CleanFilename(t) \in DOMAIN m3u'
                    /\ EntryLines(m3u'[CleanFilename(t)]) = StandardEntries(game_series'[t]) ]_vars

\* C28 (as the specification states it): a scan_directory that follows a
\* scan_directory of the same arguments with the output directory unchanged
\* writes none of the managed playlists and leaves each of them as it was.  (The
\* header of a written playlist holds the time of the write, so a file written
\* again is another file.)
C28_SecondScanWritesNothing ==
    [][ (lastOp.op = "scan_directory" /\ lastOp'.op = "scan_directory"
            /\ lastOp'.arg = lastOp.arg /\ chdFiles' = chdFiles) =>
            \A s \in Marked(m3u) : s \notin lastOp'.wrote /\ m3u'[s] = m3u[s] ]_vars

\* C29 (as the specification states it): after register_disc, scan_directory
\* and check_for_incomplete_series return, every tracked title has a stored
\* signature, the one of its tracked discs.
C29_SignatureOfEveryTitle ==
    (lastOp.op \in {"register_disc", "scan_directory", "check_for_incomplete_series"}
        /\ ~lastOp.raised) =>
        \A t \in DOMAIN game_series :
            /\ t \in DOMAIN series_signatures
            /\ series_signatures[t] = SignatureOf(game_series[t])

\* The series records of the state file; none if there is no file.
StoredSeries == IF stateFile.exists THEN RestoredSeries(stateFile) ELSE EmptyDict

\* C30 (as the specification states it): after register_disc of a file with a
\* disc marker, scan_directory and check_for_incomplete_series return, the
\* series records of the state file are those of the manager.
C30_StateFileHoldsSeries ==
    (/\ ~lastOp.raised
     /\ \/ lastOp.op \in {"scan_directory", "check_for_incomplete_series"}
        \/ lastOp.op = "register_disc" /\ CarriesMarker(PathStem(lastOp.arg.path.name))) =>
        StoredSeries = game_series

(***************************************************************************)
(* The command line: confirm_path and prompt_user_input.                   *)
(***************************************************************************)
\* The paths looked at, as texts: an entry of the current directory, an entry
\* below it, and another entry of the current directory.
PathA == <<"a">>
PathAB == <<"a", "/", "b">>
PathC == <<"c">>
Paths == {PathA, PathAB, PathC}

PathKinds == {"missing", "file", "dir"}

\* The directory trees: an entry exists below a directory only.
Trees == {f \in [Paths -> PathKinds] : f[PathAB] # "missing" => f[PathA] = "dir"}

\* Path.parent: the text before the last "/"; the current directory (the empty
\* text here, "." in Python) has itself as parent.
PathParent(p) ==
    IF RFind(p, "/", Len(p)) = 0 THEN <<>> ELSE Slice(p, 1, RFind(p, "/", Len(p)))

\* What a path is in the tree f; the current directory is a directory.
KindOf(f, p) ==
    IF p = <<>> THEN "dir" ELSE IF p \in DOMAIN f THEN f[p] ELSE "missing"

\* os.mkdir(p)
Mkdir(f, p) ==
    IF KindOf(f, p) # "missing" THEN [fs |-> f, raised |-> "FileExistsError"]
    ELSE IF KindOf(f, PathParent(p)) = "file" THEN [fs |-> f, raised |-> "NotADirectoryError"]
    ELSE IF KindOf(f, PathParent(p)) = "missing" THEN [fs |-> f, raised |-> "FileNotFoundError"]
    ELSE [fs |-> [f EXCEPT ![p] = "dir"], raised |-> "none"]

\* The end of os.makedirs(p, exist_ok=True), when the ancestors are made: the
\* mkdir of p, whose error is dropped when p is a directory.
MakeLast(made, p) ==
    IF made.raised = "none" /\ KindOf(Mkdir(made.fs, p).fs, p) = "dir"
    THEN [fs |-> Mkdir(made.fs, p).fs, raised |-> "none"]
    ELSE IF made.raised = "none" THEN Mkdir(made.fs, p)
    ELSE made

\* A variant of os.makedirs that makes the last directory alone.
MakeDirs_OneLevel(f, p) == MakeLast([fs |-> f, raised |-> "none"], p)

\* os.makedirs(p, exist_ok=True): the missing ancestors first (a FileExistsError
\* of theirs is dropped), then p.
RECURSIVE MakeDirs(_, _)
MakeDirs(f, p) ==
    IF PathParent(p) # <<>> /\ KindOf(f, PathParent(p)) = "missing"
    THEN MakeLast([MakeDirs(f, PathParent(p)) EXCEPT
                       !.raised = IF @ = "FileExistsError" THEN "none" ELSE @], p)
    ELSE MakeLast([fs |-> f, raised |-> "none"], p)

\* The ways confirm_path ends.
Confirmed(f, path) == [fs |-> f, raised |-> "none", ret |-> path]
Refused(f, error) == [fs |-> f, raised |-> error, ret |-> <<>>]
AfterMakeDirs(made, path) ==
    IF made.raised = "none" THEN Confirmed(made.fs, path) ELSE Refused(made.fs, made.raised)

\* confirm_path(path, create, is_file) in the tree f
ConfirmPath(f, path, create, is_file) ==
    IF is_file THEN
        IF KindOf(f, PathParent(path)) = "missing" THEN
            IF create THEN AfterMakeDirs(MakeDirs(f, PathParent(path)), path)
            ELSE Refused(f, "FileNotFoundError")
        ELSE IF KindOf(f, PathParent(path)) # "dir" THEN Refused(f, "NotADirectoryError")
        ELSE Confirmed(f, path)
    ELSE
        IF KindOf(f, path) # "missing" THEN
            IF KindOf(f, path) # "dir" THEN Refused(f, "NotADirectoryError")
            ELSE Confirmed(f, path)
        ELSE IF create THEN AfterMakeDirs(MakeDirs(f, path), path)
        ELSE Refused(f, "FileNotFoundError")

\* The answers prompt_user_input takes as a yes.
YesWords == { <<"y", "e", "s">>, <<"y">>, <<"t", "r", "u", "e">>, <<"1">> }

\* multiprocessing.cpu_count() of the machine.
CpuCount == 4

\* int(text): the number, or a ValueError. The texts typed here are a run of
\* digits, a run of digits after "-", or no number at all.
IsNumber(text) ==
    /\ Len(text) > 0
    /\ \A i \in 1..Len(text) : text[i] \in Digits \/ (i = 1 /\ text[i] = "-" /\ Len(text) > 1)
NumberOf(text) ==
    IF text[1] = "-" THEN 0 - IntOf(Tail(text)) ELSE IntOf(text)

\* The directory a prompt or the command line names.
NamedDir(arg, typed) == IF arg # <<>> THEN arg ELSE Strip(typed, Whitespace)

\* A variant of keep_files that asks the typed answer alone.
KeepFiles_TypedOnly(keep, typed) ==
    LowerSeq(Strip(typed, Whitespace)) \in YesWords

\* keep_files
KeepFiles(keep, typed) ==
    IF keep # "none" THEN keep = "yes"
    ELSE LowerSeq(Strip(typed, Whitespace)) \in YesWords

\* max_workers
MaxWorkers(threads, typed) ==
    IF threads # <<>> THEN (IF threads[1] <= 0 THEN CpuCount ELSE threads[1])
    ELSE IF ~IsNumber(Strip(typed, Whitespace)) THEN CpuCount
    ELSE IF NumberOf(Strip(typed, Whitespace)) <= 0 THEN CpuCount
    ELSE NumberOf(Strip(typed, Whitespace))

\* The questions prompt_user_input asks for the command line args.
Prompted(args) ==
    {q \in {"source", "destination"} : args[q] = <<>>}
        \cup (IF args.keep = "none" THEN {"keep"} ELSE {})
        \cup (IF args.threads = <<>> THEN {"threads"} ELSE {})

\* prompt_user_input(args) in the tree f, with the answers typed: the process
\* exits when a directory is refused.
PromptResult(src, dst, args, typed) ==
    IF src.raised # "none"
    THEN [exit |-> TRUE, raised |-> "none", fs |-> src.fs,
          prompted |-> Prompted(args) \cap {"source"},
          source_dir |-> <<>>, dest_dir |-> <<>>, keep_files |-> FALSE, max_workers |-> 0]
    ELSE IF dst.raised # "none"
    THEN [exit |-> dst.raised = "NotADirectoryError",
          raised |-> IF dst.raised = "NotADirectoryError" THEN "none" ELSE dst.raised,
          fs |-> dst.fs,
          prompted |-> Prompted(args) \cap {"source", "destination"},
          source_dir |-> <<>>, dest_dir |-> <<>>, keep_files |-> FALSE, max_workers |-> 0]
    ELSE [exit |-> FALSE, raised |-> "none", fs |-> dst.fs,
          prompted |-> Prompted(args),
          source_dir |-> src.ret, dest_dir |-> dst.ret,
          keep_files |-> KeepFiles(args.keep, typed.keep),
          max_workers |-> MaxWorkers(args.threads, typed.threads)]

AfterSource(src, args, typed) ==
    PromptResult(src,
                 ConfirmPath(src.fs, NamedDir(args.destination, typed.destination), TRUE, FALSE),
                 args, typed)

PromptUserInput(f, args, typed) ==
    AfterSource(ConfirmPath(f, NamedDir(args.source, typed.source), FALSE, FALSE), args, typed)

\* The answers typed at the keep prompt.
KeepAnswers ==
    { <<>>, <<" ">>, <<"y", "e", "s">>, <<"n", "o">>, <<"y">>, <<"n">>,
      <<"Y", "E", "S">>, <<" ", "y", "e", "s", " ">>, <<"N", "o">>,
      <<"t", "r", "u", "e">>, <<"1">>, <<"0">>, <<"o", "k">> }

\* The command lines and the answers typed.
CommandLines ==
    [source      : {<<>>, PathC},
     destination : {<<>>, PathAB},
     keep        : {"none", "yes", "no"},
     threads     : {<<>>, <<0>>, <<2>>}]

TypedAnswers ==
    [source      : {<<" ", "c", " ">>},
     destination : {PathA},
     keep        : KeepAnswers,
     threads     : {<<"3">>, <<"x">>, <<"-", "1">>}]

\* A directory tree, a command line and the answers, before anything ran.
InitPrompt ==
    /\ given \in [args : CommandLines, typed : TypedAnswers]
    /\ fs \in Trees
    /\ conv = NoConversion
    /\ chdFiles = {}
    /\ m3u = EmptyDict
    /\ bak = EmptyDict
    /\ stateFile = NoFile
    /\ game_series = EmptyDict
    /\ series_signatures = EmptyDict
    /\ created_playlists = {}
    /\ user_customized = {}
    /\ recently_updated = {}
    /\ lastOp = NoOp
    /\ userMade = {}
    /\ hist = <<>>
    /\ steps = 0
    /\ names = NameTables

\* prompt_user_input(args)
CallPromptUserInput ==
    /\ lastOp.op = "none"
    /\ lastOp' = [NoOp EXCEPT !.op = "prompt_user_input",
                              !.arg = PromptUserInput(fs, given.args, given.typed)]
    /\ fs' = PromptUserInput(fs, given.args, given.typed).fs
    /\ steps' = steps + 1
    /\ UNCHANGED <<chdFiles, m3u, bak, stateFile, game_series, series_signatures,
                   created_playlists, user_customized, recently_updated, userMade, hist,
                   names, given, conv>>

NextPrompt == CallPromptUserInput

SpecPrompt == InitPrompt /\ [][NextPrompt]_vars

\* A directory tree, before anything ran.
InitPath ==
    /\ given = <<>>
    /\ fs \in Trees
    /\ conv = NoConversion
    /\ chdFiles = {}
    /\ m3u = EmptyDict
    /\ bak = EmptyDict
    /\ stateFile = NoFile
    /\ game_series = EmptyDict
    /\ series_signatures = EmptyDict
    /\ created_playlists = {}
    /\ user_customized = {}
    /\ recently_updated = {}
    /\ lastOp = NoOp
    /\ userMade = {}
    /\ hist = <<>>
    /\ steps = 0
    /\ names = NameTables

\* confirm_path(path, create, is_file)
CallConfirmPath(path, create, is_file) ==
    /\ lastOp.op = "none"
    /\ lastOp' = [NoOp EXCEPT !.op = "confirm_path",
                              !.arg = [path |-> path, create |-> create, is_file |-> is_file,
                                       was |-> fs,
                                       out |-> ConfirmPath(fs, path, create, is_file)]]
    /\ fs' = ConfirmPath(fs, path, create, is_file).fs
    /\ steps' = steps + 1
    /\ UNCHANGED <<chdFiles, m3u, bak, stateFile, game_series, series_signatures,
                   created_playlists, user_customized, recently_updated, userMade, hist,
                   names, given, conv>>

NextPath == \E path \in Paths, create \in BOOLEAN, is_file \in BOOLEAN :
                CallConfirmPath(path, create, is_file)

SpecPath == InitPath /\ [][NextPath]_vars

\* prompt_user_input ran to its end and returned.
Prompted_Returned ==
    lastOp.op = "prompt_user_input" /\ ~lastOp.arg.exit /\ lastOp.arg.raised = "none"

\* C24 (as the specification states it): without --keep, an empty answer at
\* the keep prompt makes prompt_user_input return keep_files = True.
C24_EmptyAnswerKeeps ==
    (Prompted_Returned /\ given.args.keep = "none" /\ given.typed.keep = <<>>) =>
        lastOp.arg.keep_files

YesText == <<"y", "e", "s">>
NoText == <<"n", "o">>

\* C25: an explicit yes gives keep_files = True and an explicit no gives
\* keep_files = False; with --keep the keep question is not asked, without it
\* the answer typed at the prompt decides.
C25_ExplicitAnswerDecides ==
    Prompted_Returned =>
        /\ given.args.keep = "yes" =>
               lastOp.arg.keep_files /\ "keep" \notin lastOp.arg.prompted
        /\ given.args.keep = "no" =>
               ~lastOp.arg.keep_files /\ "keep" \notin lastOp.arg.prompted
        /\ (given.args.keep = "none" /\ given.typed.keep = YesText) =>
               lastOp.arg.keep_files /\ "keep" \in lastOp.arg.prompted
        /\ (given.args.keep = "none" /\ given.typed.keep = NoText) =>
               ~lastOp.arg.keep_files /\ "keep" \in lastOp.arg.prompted

\* --keep no wins over a yes typed for a question that is never asked.
C25_Witness ==
    /\ Prompted_Returned
    /\ given.args.keep = "no"
    /\ given.typed.keep = YesText
    /\ ~lastOp.arg.keep_files
    /\ "keep" \notin lastOp.arg.prompted

\* The proper ancestors of a path.
Ancestors(p) == {Slice(p, 1, i) : i \in {j \in 1..Len(p) : p[j] = "/"}}

\* confirm_path was called for a directory path that was of the kind given.
ConfirmedDir(kind) ==
    /\ lastOp.op = "confirm_path"
    /\ ~lastOp.arg.is_file
    /\ KindOf(lastOp.arg.was, lastOp.arg.path) = kind

\* What confirm_path does with a directory that exists, with one that is
\* missing when it is not to be made, and with a file.
ConfirmPathOfKind ==
    /\ ConfirmedDir("dir") =>
           /\ lastOp.arg.out.raised = "none"
           /\ lastOp.arg.out.ret = lastOp.arg.path
           /\ fs = lastOp.arg.was
    /\ (ConfirmedDir("missing") /\ ~lastOp.arg.create) =>
           /\ lastOp.arg.out.raised = "FileNotFoundError"
           /\ fs = lastOp.arg.was
    /\ ConfirmedDir("file") =>
           /\ lastOp.arg.out.raised = "NotADirectoryError"
           /\ fs = lastOp.arg.was

\* C26 (as the specification states it): an existing directory is returned, a
\* missing one is made and returned when create is set and refused with
\* FileNotFoundError (nothing made) when not, a file is refused with
\* NotADirectoryError.
C26_ConfirmPathAsStated ==
    /\ ConfirmPathOfKind
    /\ (ConfirmedDir("missing") /\ lastOp.arg.create) =>
           /\ lastOp.arg.out.raised = "none"
           /\ lastOp.arg.out.ret = lastOp.arg.path
           /\ KindOf(fs, lastOp.arg.path) = "dir"

\* C26 (amended): as stated, but a missing directory is made, with its missing
\* ancestors, only when no ancestor of it is a file; below a file
\* NotADirectoryError is raised and nothing is made.
C26_ConfirmPath ==
    /\ ConfirmPathOfKind
    /\ (ConfirmedDir("missing") /\ lastOp.arg.create) =>
           IF \E q \in Ancestors(lastOp.arg.path) : KindOf(lastOp.arg.was, q) = "file"
           THEN /\ lastOp.arg.out.raised = "NotADirectoryError"
                /\ fs = lastOp.arg.was
           ELSE /\ lastOp.arg.out.raised = "none"
                /\ lastOp.arg.out.ret = lastOp.arg.path
                /\ KindOf(fs, lastOp.arg.path) = "dir"
                /\ \A q \in Ancestors(lastOp.arg.path) : KindOf(fs, q) = "dir"
                /\ \A q \in Paths \ (Ancestors(lastOp.arg.path) \cup {lastOp.arg.path}) :
                       fs[q] = lastOp.arg.was[q]

\* A missing directory below a missing directory was made, with its parent.
C26_Witness ==
    /\ ConfirmedDir("missing")
    /\ lastOp.arg.create
    /\ lastOp.arg.path = PathAB
    /\ lastOp.arg.was[PathA] = "missing"
    /\ fs[PathA] = "dir"
    /\ fs[PathAB] = "dir"

(***************************************************************************)
(* The converter: convert_multiple, _convert_batch and convert_file, and   *)
(* the driver batch_process.  The converter is wired as batch_process      *)
(* wires it before its call of converter.set_playlist_manager: an          *)
(* extractor that knows the playlist manager, and no playlist_generator.   *)
(* chdman is configured, the inputs exist, and the files of a batch are of *)
(* one complexity group.                                                   *)
(***************************************************************************)
MaxPool == 2
MaxCalls == 2
MaxBatchFiles == 3

\* self.disc_patterns of the converter: the patterns of the playlist manager
\* without its two patterns "separators, disc or cd, digits".
converter_disc_patterns == SubSeq(disc_patterns, 1, 7) \o <<disc_patterns[10]>>

\* The loop of extract_game_info over its patterns from pattern number i on.
RECURSIVE GameInfoFrom(_, _)
GameInfoFrom(name, i) ==
    IF i > Len(converter_disc_patterns) THEN [base |-> name, disc |-> 0, found |-> FALSE]
    ELSE IF SearchFrom(name, 1, converter_disc_patterns[i]) = 0 THEN GameInfoFrom(name, i + 1)
    ELSE [base  |-> Strip(SubFrom(name, 1, converter_disc_patterns[i]), Separators),
          disc  |-> IntOf(Slice(name,
                       MatchAt(name, SearchFrom(name, 1, converter_disc_patterns[i]),
                               converter_disc_patterns[i]).ds,
                       MatchAt(name, SearchFrom(name, 1, converter_disc_patterns[i]),
                               converter_disc_patterns[i]).de)),
          found |-> TRUE]

\* extract_game_info(filename)
ExtractGameInfo(filename) == GameInfoFrom(PathStem(filename), 1)

\* The files an archive unpacks to: the cue sheets of two discs of Foo, a
\* CloneCD image of its first disc, and an image without a disc number.
InputTable ==
    << Foo \o <<" ", "(", "D", "i", "s", "c", " ", "1", ")", ".", "c", "u", "e">>,
       Foo \o <<" ", "(", "D", "i", "s", "c", " ", "2", ")", ".", "c", "u", "e">>,
       Foo \o <<" ", "(", "D", "i", "s", "c", " ", "1", ")", ".", "i", "m", "g">>,
       Baz \o <<".", "i", "s", "o">> >>

Inputs == {InputTable[i] : i \in 1..Len(InputTable)}

\* output_dir / f"{input_file.stem}.chd"
OutputOf(input) == PathStem(input) \o ChdSuffix

\* What convert_file parses of an input: extract_game_info(input_file.stem).
InputInfo == [f \in Inputs |-> ExtractGameInfo(PathStem(f))]

\* "if base_game and disc_num and self.extractor"
Tracks(info) == info.base # <<>> /\ info.found /\ info.disc # 0

\* The lists identify_disc_files can hand to convert_multiple: some of the
\* inputs, in the order of the table.
RECURSIVE InTableOrder(_, _)
InTableOrder(S, i) ==
    IF i > Len(InputTable) THEN <<>>
    ELSE (IF InputTable[i] \in S THEN <<InputTable[i]>> ELSE <<>>) \o InTableOrder(S, i + 1)

Batches ==
    {InTableOrder(S, 1) : S \in {T \in SUBSET Inputs : T # {} /\ Cardinality(T) <= MaxBatchFiles}}

\* The tracking of one disc when nothing else runs: the four statements
\*   if base_game not in processed_games: processed_games[base_game] = []
\*   if disc_num not in processed_games[base_game]: ....append(disc_num)
WithTitle(pg, base) == IF base \in DOMAIN pg THEN pg ELSE SetKey(pg, base, <<>>)

WithDisc(pg, base, disc) ==
    IF disc \in SeqToSet(pg[base]) THEN pg ELSE SetKey(pg, base, Append(pg[base], disc))

TrackDisc(pg, info) ==
    IF Tracks(info) THEN WithDisc(WithTitle(pg, info.base), info.base, info.disc) ELSE pg

\* mark_game_series_complete after the tracking of convert_multiple's first
\* loop: _create_m3u_for_game returns False without a playlist_generator.
MarkComplete(completed, pg, info) ==
    IF Tracks(info) /\ Len(TrackDisc(pg, info)[info.base]) >= 2
    THEN completed \cup {info.base} ELSE completed

\* The first loop of convert_multiple from file number i on: the files whose
\* output exists are tracked and skipped.
RECURSIVE PreCheck(_, _, _, _, _)
PreCheck(batch, i, files, pg, completed) ==
    IF i > Len(batch) THEN [pg |-> pg, completed |-> completed]
    ELSE IF OutputOf(batch[i]) \in files
    THEN PreCheck(batch, i + 1, files,
                  TrackDisc(pg, InputInfo[batch[i]]),
                  MarkComplete(completed, pg, InputInfo[batch[i]]))
    ELSE PreCheck(batch, i + 1, files, pg, completed)

\* Where a convert_file stands.
Waiting == {"skipped", "waiting"}
Ended == {"skipped", "done"}
Running(c) == {i \in 1..Len(c.pc) : c.pc[i] \notin Waiting \cup Ended}

\* resumable_file_info, and effective_workers of _convert_batch
Resumable(c) == {i \in 1..Len(c.pc) : c.pc[i] # "skipped"}
EffectiveWorkers(c) == MinOf({c.workers, Cardinality(Resumable(c))})

\* _convert_batch runs the files on a pool of worker threads; with one worker
\* or one file it calls convert_file itself, one file after the other.
Pooled(c) == EffectiveWorkers(c) > 1

\* convert_multiple(file_info_list, output_dir) up to the start of the
\* conversions; it returns {} when every output exists.
StartConvertMultiple(batch, workers) ==
    /\ conv.phase = "idle"
    /\ steps < MaxCalls
    /\ conv' = [conv EXCEPT
           !.phase = IF \A i \in 1..Len(batch) : OutputOf(batch[i]) \in chdFiles
                     THEN "idle" ELSE "running",
           !.batch = batch,
           !.workers = workers,
           !.pc = [i \in 1..Len(batch) |->
                      IF OutputOf(batch[i]) \in chdFiles THEN "skipped" ELSE "waiting"],
           !.ret = [i \in 1..Len(batch) |-> "none"],
           !.processed_games = PreCheck(batch, 1, chdFiles, @, conv.completed).pg,
           !.completed = PreCheck(batch, 1, chdFiles, conv.processed_games, @).completed]
    /\ lastOp' = [NoOp EXCEPT !.op = "convert_multiple",
                              !.arg = [batch |-> batch, workers |-> workers,
                                       returned |-> \A i \in 1..Len(batch) :
                                                        OutputOf(batch[i]) \in chdFiles,
                                       results |-> EmptyDict]]
    /\ steps' = steps + 1
    /\ UNCHANGED <<chdFiles, m3u, bak, stateFile, game_series, series_signatures,
                   created_playlists, user_customized, recently_updated, userMade, hist,
                   names, given, fs>>

\* What the steps of a convert_file leave alone.
ConverterStep ==
    UNCHANGED <<m3u, bak, stateFile, game_series, series_signatures,
                created_playlists, user_customized, recently_updated, userMade, hist,
                names, given, fs, lastOp, steps>>

\* convert_file(input_file, output_file, input_type) starts, on a free worker
\* and after the files submitted before it: with the output there it goes on
\* to the tracking and will return True, else it goes on to chdman.
BeginConvertFile(i) ==
    /\ conv.phase = "running"
    /\ i \in 1..Len(conv.pc)
    /\ conv.pc[i] = "waiting"
    /\ \A j \in 1..(i - 1) : conv.pc[j] # "waiting"
    /\ Cardinality(Running(conv)) < EffectiveWorkers(conv)
    /\ conv' = [conv EXCEPT
           !.pc[i] = IF OutputOf(conv.batch[i]) \in chdFiles THEN "track" ELSE "convert"]
    /\ UNCHANGED chdFiles
    /\ ConverterStep

\* subprocess.run(chdman createcd -i input -o output): the run writes the
\* output and exits with 0, or fails; success is "returncode == 0 and
\* output_file.exists()".
RunChdman(i, ok) ==
    /\ conv.phase = "running"
    /\ i \in 1..Len(conv.pc)
    /\ conv.pc[i] = "convert"
    /\ chdFiles' = IF ok THEN chdFiles \cup {OutputOf(conv.batch[i])} ELSE chdFiles
    /\ conv' = [conv EXCEPT
           !.pc[i] = IF ok THEN "track" ELSE "done",
           !.ret[i] = IF ok THEN "none" ELSE "false",
           !.runs = SetKey(@, OutputOf(conv.batch[i]),
                           IF OutputOf(conv.batch[i]) \in DOMAIN @
                           THEN @[OutputOf(conv.batch[i])] + 1 ELSE 1),
           !.late = IF OutputOf(conv.batch[i]) \in chdFiles
                    THEN @ \cup {OutputOf(conv.batch[i])} ELSE @]
    /\ ConverterStep

\* "if base_game and disc_num and self.extractor:  if base_game not in
\* self.extractor.processed_games": the test alone.
CheckTitle(i) ==
    /\ conv.phase = "running"
    /\ i \in 1..Len(conv.pc)
    /\ conv.pc[i] = "track"
    /\ conv' = [conv EXCEPT
           !.pc[i] = IF ~Tracks(InputInfo[conv.batch[i]]) THEN "done"
                     ELSE IF InputInfo[conv.batch[i]].base \notin DOMAIN conv.processed_games
                     THEN "store" ELSE "check",
           !.ret[i] = IF ~Tracks(InputInfo[conv.batch[i]]) THEN "true" ELSE @]
    /\ UNCHANGED chdFiles
    /\ ConverterStep

\* "self.extractor.processed_games[base_game] = []"
StoreTitle(i) ==
    /\ conv.phase = "running"
    /\ i \in 1..Len(conv.pc)
    /\ conv.pc[i] = "store"
    /\ conv' = [conv EXCEPT
           !.pc[i] = "check",
           !.processed_games = SetKey(@, InputInfo[conv.batch[i]].base, <<>>),
           !.byWorker = @ \/ Pooled(conv)]
    /\ UNCHANGED chdFiles
    /\ ConverterStep

\* "if disc_num not in self.extractor.processed_games[base_game]": the test
\* alone; convert_file returns True when the disc is there.
CheckDisc(i) ==
    /\ conv.phase = "running"
    /\ i \in 1..Len(conv.pc)
    /\ conv.pc[i] = "check"
    /\ conv' = [conv EXCEPT
           !.pc[i] = IF InputInfo[conv.batch[i]].disc \in
                          SeqToSet(conv.processed_games[InputInfo[conv.batch[i]].base])
                     THEN "done" ELSE "append",
           !.ret[i] = IF InputInfo[conv.batch[i]].disc \in
                          SeqToSet(conv.processed_games[InputInfo[conv.batch[i]].base])
                      THEN "true" ELSE @]
    /\ UNCHANGED chdFiles
    /\ ConverterStep

\* "self.extractor.processed_games[base_game].append(disc_num)", and the
\* return of True: without a playlist_generator nothing else is done.
AppendDisc(i) ==
    /\ conv.phase = "running"
    /\ i \in 1..Len(conv.pc)
    /\ conv.pc[i] = "append"
    /\ conv' = [conv EXCEPT
           !.pc[i] = "done",
           !.ret[i] = "true",
           !.processed_games[InputInfo[conv.batch[i]].base] =
               Append(@, InputInfo[conv.batch[i]].disc),
           !.byWorker = @ \/ Pooled(conv)]
    /\ UNCHANGED chdFiles
    /\ ConverterStep

\* The results of convert_multiple: (output_file, success) for the files that
\* were not skipped.
ResultsOf(c) == [f \in {c.batch[i] : i \in Resumable(c)} |->
                    \E i \in Resumable(c) : c.batch[i] = f /\ c.ret[i] = "true"]

\* The end of convert_multiple: every future has its result;
\* process_archive_series does nothing for an extractor with a playlist
\* manager, and there is no playlist_generator to ask.
FinishConvertMultiple ==
    /\ conv.phase = "running"
    /\ \A i \in 1..Len(conv.pc) : conv.pc[i] \in Ended
    /\ conv' = [conv EXCEPT !.phase = "idle"]
    /\ lastOp' = [lastOp EXCEPT !.arg.returned = TRUE, !.arg.results = ResultsOf(conv)]
    /\ UNCHANGED <<chdFiles, m3u, bak, stateFile, game_series, series_signatures,
                   created_playlists, user_customized, recently_updated, userMade, hist,
                   names, given, fs, steps>>

\* The archives of a source directory, by the names of their CHD files.
ArchiveSets == SUBSET {OutputOf(InputTable[i]) : i \in 1..Len(InputTable)} \ {{}}

\* batch_process(source_dir, dest_dir, keep_files, max_workers): it makes the
\* playlist manager, the extractor and the converter, and its call
\* converter.set_playlist_manager(playlist_manager) raises AttributeError, the
\* Converter having no such method: no archive is looked at, nothing is
\* converted, nothing is registered, and the objects it made are gone.
BatchProcess(archives, keep_files) ==
    /\ conv.phase = "idle"
    /\ steps < MaxCalls
    /\ lastOp' = [NoOp EXCEPT !.op = "batch_process",
                              !.raised = TRUE,
                              !.arg = [archives |-> archives, keep_files |-> keep_files,
                                       error |-> "AttributeError",
                                       converted |-> {}, registered |-> {}]]
    /\ steps' = steps + 1
    /\ UNCHANGED <<chdFiles, m3u, bak, stateFile, game_series, series_signatures,
                   created_playlists, user_customized, recently_updated, userMade, hist,
                   names, given, fs, conv>>

\* An output directory with some of the CHD files, a new manager, and a new
\* converter.
InitConvert ==
    /\ Init
    /\ m3u = EmptyDict

NextConvert ==
    \/ \E batch \in Batches, workers \in 1..MaxPool : StartConvertMultiple(batch, workers)
    \/ \E i \in 1..MaxBatchFiles : BeginConvertFile(i)
    \/ \E i \in 1..MaxBatchFiles, ok \in BOOLEAN : RunChdman(i, ok)
    \/ \E i \in 1..MaxBatchFiles : CheckTitle(i)
    \/ \E i \in 1..MaxBatchFiles : StoreTitle(i)
    \/ \E i \in 1..MaxBatchFiles : CheckDisc(i)
    \/ \E i \in 1..MaxBatchFiles : AppendDisc(i)
    \/ FinishConvertMultiple
    \/ \E archives \in ArchiveSets, keep_files \in BOOLEAN : BatchProcess(archives, keep_files)

SpecConvert == InitConvert /\ [][NextConvert]_vars

\* C21 (as the specification states it): batch_process works through its
\* archives, and every CHD file a successful conversion produced is passed to
\* register_disc before the next archive is processed.
C21_ConvertedDiscsAreRegistered ==
    lastOp.op = "batch_process" =>
        /\ ~lastOp.raised
        /\ lastOp.arg.converted \subseteq lastOp.arg.registered

\* convert_multiple returned, and every disc it reports as converted is among
\* the tracked discs of its title.
EveryConvertedDiscTracked ==
    (lastOp.op = "convert_multiple" /\ lastOp.arg.returned) =>
        \A f \in DOMAIN lastOp.arg.results :
            (lastOp.arg.results[f] /\ Tracks(InputInfo[f])) =>
                /\ InputInfo[f].base \in DOMAIN conv.processed_games
                /\ InputInfo[f].disc \in SeqToSet(conv.processed_games[InputInfo[f].base])

\* C22 (as the specification states it): no worker thread of _convert_batch
\* changes the series tracking, and after a batch the tracked discs of a title
\* include every disc that was converted, however the workers interleave.
C22_NoDiscLostByWorkers ==
    /\ ~conv.byWorker
    /\ EveryConvertedDiscTracked

\* C23 (as the specification states it): chdman is never run for an output
\* file that exists, so that it runs at most once for an output file.
C23_ChdmanNotRunForExistingOutput ==
    conv.late = {}

\* ---------------------------------------------------------------------------
\* The indices of the tracked discs
\* ---------------------------------------------------------------------------

\* C33: every disc reference in the store has a disc index of 1 or more, after
\* any sequence of register_disc and scan_directory over any contents of the
\* output directory, the store being empty at the start.
C33_DiscIndexAtLeastOne ==
    \A t \in DOMAIN game_series :
        \A i \in 1..Len(game_series[t]) : game_series[t][i][2] >= 1

\* register_disc has stored disc 0 of a title: the search for related discs
\* found a file marked "Disc 0" next to the registered one.
C33_DiscZeroStored ==
    /\ lastOp.op = "register_disc"
    /\ \E t \in DOMAIN game_series :
          \E i \in 1..Len(game_series[t]) : game_series[t][i][2] = 0

\* ---------------------------------------------------------------------------
\* The titles of the tracked files
\* ---------------------------------------------------------------------------

\* The title the parser gives for the file of a tracked disc.
ParsedTitle(disc) == ParseFile(disc[1].name).base

\* C32: every disc reference stored under a title refers to a file whose name
\* the parser maps to that title; the search for related discs of register_disc
\* never adds to a title a file that parses to another title.
C32_StoredFilesParseToTheirTitle ==
    \A t \in DOMAIN game_series :
        \A i \in 1..Len(game_series[t]) : ParsedTitle(game_series[t][i]) = t

\* register_disc has stored under a title a file of the output directory that
\* the parser maps to another title.
C32_ForeignFileStored ==
    /\ lastOp.op = "register_disc"
    /\ \E t \in DOMAIN game_series :
          \E i \in 1..Len(game_series[t]) :
              /\ game_series[t][i][1].name \in chdFiles
              /\ ParsedTitle(game_series[t][i]) # t

\* ---------------------------------------------------------------------------
\* Nothing is un-registered within a run
\* ---------------------------------------------------------------------------

\* The step is one of the manager's operations within a run.
WithinRun == lastOp'.op \notin {"new_run", "none"}

\* The disc references tracked for a title.
TrackedDiscs(gs, t) == IF t \in DOMAIN gs THEN SeqToSet(gs[t]) ELSE {}

\* C34: within one run nothing is un-registered: after each operation the discs
\* tracked for every title are a superset of those tracked before, and the
\* titles with a created playlist and the customized titles only grow.
C34_NothingIsUnregistered ==
    [][WithinRun =>
          /\ \A t \in DOMAIN game_series :
                 TrackedDiscs(game_series, t) \subseteq TrackedDiscs(game_series', t)
          /\ created_playlists \subseteq created_playlists'
          /\ user_customized \subseteq user_customized']_vars

\* An operation added a disc to a title that had discs already, the store
\* holding a created playlist and a customized title.
C34_Witness ==
    /\ lastOp.op \in {"register_disc", "scan_directory", "check_for_incomplete_series"}
    /\ \E t \in lastOp.grown \cap lastOp.hadSig : Len(game_series[t]) >= 2
    /\ created_playlists # {}
    /\ user_customized # {}

\* ---------------------------------------------------------------------------
\* The entry lines of a managed playlist
\* ---------------------------------------------------------------------------

\* The disc of the set discs that has rank i by its disc number.
DiscOfRank(discs, i) ==
    CHOOSE d \in discs : Cardinality({e \in discs : e[2] < d[2]}) = i - 1

\* The line names the disc: it starts with the bare file name if the file lies
\* in the output directory, with the full path otherwise.
LineNames(line, disc) ==
    IsPrefix(IF disc[1].parent = OutputDir THEN disc[1].name ELSE PathStr(disc[1]), line)

\* The entry lines are those of the discs: one line a disc, in ascending order
\* of the disc numbers.
ListsInOrder(lines, discs) ==
    /\ Len(lines) = Cardinality(discs)
    /\ \A i \in 1..Len(lines) : LineNames(lines[i], DiscOfRank(discs, i))

\* C35: when a managed playlist is written, its entry lines are those of the
\* discs tracked for the title, one line a disc, in strictly ascending order of
\* the disc index whatever the order of registration; an entry names the bare
\* file name of a disc in the output directory and the full path of any other.
C35_ManagedEntriesListTrackedDiscs ==
    \A s \in lastOp.managed : \A t \in TitlesOfStem(s) :
        ListsInOrder(EntryLines(m3u[s]), SeqToSet(game_series[t]))

\* A managed playlist was written for a title of three discs or more, one of
\* them outside the output directory, the discs not registered in ascending
\* order.
C35_Witness ==
    /\ lastOp.op = "register_disc"
    /\ \E s \in lastOp.managed : \E t \in TitlesOfStem(s) :
          /\ Len(game_series[t]) >= 3
          /\ \E i \in 1..Len(game_series[t]) : game_series[t][i][1].parent # OutputDir
          /\ \E i \in 1..Len(game_series[t]) : game_series[t][i][1].parent = OutputDir
          /\ lastOp.arg.parsed.disc < MaxOf(DiscNumbers(game_series[t]))

\* ---------------------------------------------------------------------------
\* The series check_for_incomplete_series writes a playlist for
\* ---------------------------------------------------------------------------

\* The titles check_for_incomplete_series itself called update_playlist for and
\* got a path from; without force_scan, every title update_playlist was called
\* for.  (With force_scan the scan it starts with calls update_playlist too.)
CheckUpdated ==
    lastOp.result \cup (IF lastOp.arg.force_scan THEN {} ELSE lastOp.called)

\* The disc numbers are those from 1 to the highest one.
FromOneToHighest(disc_nums) == \A i \in 1..MaxOf(disc_nums) : i \in disc_nums

\* The titles check_for_incomplete_series updated have the disc numbers from 1
\* to the highest.
CheckedTitlesGapless ==
    lastOp.op = "check_for_incomplete_series" =>
        \A t \in CheckUpdated : FromOneToHighest(DiscNumbers(game_series[t]))

\* C38: every title check_for_incomplete_series calls the playlist write for has
\* the disc numbers from 1 to its highest, none missing; the test for an
\* orphaned gap admits no set of disc numbers with a number missing below the
\* highest.
C38_CheckWritesGaplessOnly ==
    /\ \A S \in (SUBSET (1..MaxDisc)) \ {{}} : HasConsecutive(S) => FromOneToHighest(S)
    /\ CheckedTitlesGapless

\* check_for_incomplete_series, not told to scan, called update_playlist for a
\* title of three discs and the playlist was written.
C38_Witness ==
    /\ lastOp.op = "check_for_incomplete_series"
    /\ ~lastOp.arg.force_scan
    /\ \E t \in lastOp.called :
          /\ Len(game_series[t]) >= 3
          /\ CleanFilename(t) \in lastOp.wrote

\* ---------------------------------------------------------------------------
\* The scan of a resumed run
\* ---------------------------------------------------------------------------

\* The store holds, for every disc image of the output directory whose name
\* the parser gives a title and a disc number of 1 or more for, a disc of that
\* title with that number.
EveryListedDiscTracked ==
    \A f \in chdFiles :
        (ParseFile(f).found /\ ParseFile(f).disc >= 1) =>
            /\ ParseFile(f).base \in DOMAIN game_series
            /\ ParseFile(f).disc \in DiscNumbers(game_series[ParseFile(f).base])

\* C31: after scan_directory, whatever state the manager loaded from the state
\* file a previous run saved last (the run ended by cleanup or interrupted, disc
\* images added since), every disc image at the top of the output directory
\* whose name parses to a title and a disc number of 1 or more has a disc of
\* that number in the title's series.
C31_ScanTracksEveryListedDisc ==
    [][lastOp'.op = "scan_directory" => EveryListedDiscTracked']_vars

\* scan_directory ran on a store that held a title from before, the state file
\* there, and added a disc of the directory to that title.
C31_Witness ==
    /\ lastOp.op = "scan_directory"
    /\ stateFile.exists
    /\ lastOp.grown \cap lastOp.hadSig # {}
    /\ EveryListedDiscTracked

\* ---------------------------------------------------------------------------
\* The bare number in a name
\* ---------------------------------------------------------------------------

\* The positions of name at which a run of digits starts.
NumberStarts(name) ==
    {i \in 1..Len(name) : name[i] \in Digits /\ (i = 1 \/ name[i - 1] \notin Digits)}

\* Title text follows the number that starts at position i: past the digits
\* stands a character that is neither a digit nor a separator.
TextFollows(name, i) ==
    \E k \in SkipWhile(name, i, Digits)..Len(name) : name[k] \notin Digits \cup Separators

\* The name has no marker of the kinds disc, cd, disk, volume, vol and d, and
\* its only number is followed by more of the title.
NumberInsideTitle(name) ==
    /\ KindsIn(name) \subseteq {"number"}
    /\ Cardinality(NumberStarts(name)) = 1
    /\ \A i \in NumberStarts(name) : TextFollows(name, i)

\* C36: the bare-number pattern of the parser matches a number only at the end
\* of the name: for a name without a disc, cd, disk, volume, vol or d marker
\* whose only number is followed by more title text the parser returns the name
\* and no disc number.
C36_NumberBeforeTextIsNoDisc ==
    (lastOp.op = "parse" /\ NumberInsideTitle(given)) =>
        /\ ~lastOp.arg.found
        /\ lastOp.arg.base = given

\* The parser took the number in the middle of such a name for a disc number
\* and cut it out of the title.
C36_NumberTakenFromTheMiddle ==
    /\ lastOp.op = "parse"
    /\ NumberInsideTitle(given)
    /\ PathStem(given) = given
    /\ lastOp.arg.found
    /\ lastOp.arg.base # given

(***************************************************************************)
(* The wait for memory of convert_file and extract_archive.                *)
(***************************************************************************)
\* The readings of memory_percent the model draws from, in per cent, and the
\* number of readings drawn for one call; the last reading stays from then on.
MemoryReadings == {50, 90, 91}
MaxSnapshots == 5

\* "resources['memory_percent'] > 90" and "retry_count < 3"
HighMemory == 90
WaitLimit == 3

WaitingCalls == {"convert_file", "extract_archive"}

SnapshotLists == [1..MaxSnapshots -> MemoryReadings]

\* check_system_resources()['memory_percent'], read for the n-th time
Snapshot(w, n) == w.snapshots[IF n <= Len(w.snapshots) THEN n ELSE Len(w.snapshots)]

\* A variant of KeepsWaiting that allows five rounds.
KeepsWaiting_FiveRounds(w) == w.memory_percent > HighMemory /\ w.retry_count < 5

\* "while resources['memory_percent'] > 90 and retry_count < 3"
KeepsWaiting(w) == w.memory_percent > HighMemory /\ w.retry_count < WaitLimit

\* What a step of the wait leaves alone.
WaitStep ==
    UNCHANGED <<chdFiles, m3u, bak, stateFile, game_series, series_signatures,
                created_playlists, user_customized, recently_updated, userMade, hist,
                names, given, fs, lastOp, steps>>

\* convert_file or extract_archive comes to its check of the resources:
\* "resources = self.check_system_resources(); retry_count = 0".
BeginWait(of, snapshots) ==
    /\ conv.wait.pc = "idle"
    /\ conv' = [conv EXCEPT !.wait = [of |-> of, pc |-> "loop", snapshots |-> snapshots,
                                      read |-> 1, memory_percent |-> snapshots[1],
                                      retry_count |-> 0, slept |-> 0]]
    /\ WaitStep

\* One round of the loop: time.sleep(10), the resources are read again,
\* retry_count += 1.
WaitRound ==
    /\ conv.wait.pc = "loop"
    /\ KeepsWaiting(conv.wait)
    /\ conv' = [conv EXCEPT !.wait.read = @ + 1,
                            !.wait.memory_percent = Snapshot(conv.wait, conv.wait.read + 1),
                            !.wait.retry_count = @ + 1,
                            !.wait.slept = @ + 1]
    /\ WaitStep

\* The loop ends and the call goes on to its work.
Proceed ==
    /\ conv.wait.pc = "loop"
    /\ ~KeepsWaiting(conv.wait)
    /\ conv' = [conv EXCEPT !.wait.pc = "proceeded"]
    /\ WaitStep

\* A new converter and extractor, no call waiting.
InitWait == InitEmpty

NextWait ==
    \/ \E of \in WaitingCalls, snapshots \in SnapshotLists : BeginWait(of, snapshots)
    \/ WaitRound
    \/ Proceed

\* The thread that runs the call is scheduled: a step that can be taken is taken.
SpecWait == InitWait /\ [][NextWait]_vars /\ WF_vars(NextWait)

\* C37: the wait for memory before a conversion or an extraction is bounded:
\* convert_file and extract_archive sleep at most 3 times and then go on
\* whatever the memory is, so the loop ends for every sequence of readings.
C37_WaitIsBounded ==
    /\ [](conv.wait.slept <= 3 /\ conv.wait.retry_count <= 3)
    /\ [](conv.wait.pc = "loop" => <>(conv.wait.pc = "proceeded"))

\* A call went on after three waits with the memory still above 90 per cent.
C37_Witness ==
    /\ conv.wait.pc = "proceeded"
    /\ conv.wait.slept = 3
    /\ conv.wait.memory_percent > 90

(***************************************************************************)
(* calculate_optimal_workers of the converter and of the extractor, and    *)
(* the pools _convert_batch and _extract_batch start.                      *)
(***************************************************************************)
\* The memory available in GB, memory_percent, and the free disk space in GB the
\* model draws from.
AvailableGb == {0, 1, 2, 4, 8, 16}
MemoryPercents == {50, 70, 90}
DiskSpaceGb == {5, 20}

\* adjustment_factor in hundredths: 0.5 above 80 per cent of memory used, 0.7
\* above 60 per cent, 1.0 otherwise.
AdjustmentFactor(memory_percent) ==
    IF memory_percent > 80 THEN 50 ELSE IF memory_percent > 60 THEN 70 ELSE 100

\* The extractor halves the factor when less than 10 GB of disk are free.
DiskAdjusted(factor, disk_space_gb) == IF disk_space_gb < 10 THEN factor \div 2 ELSE factor

\* max(1, int(available_memory_gb / per_worker)), per_worker in halves of a GB
MemoryBased(available_gb, halves) == MaxOf({1, (2 * available_gb) \div halves})

\* max(1, int(memory_based * adjustment_factor))
Adjusted(memory_based, factor) == MaxOf({1, (memory_based * factor) \div 100})

\* Converter.calculate_optimal_workers: the workers of each complexity.
ConverterWorkers(max_workers, available_gb, memory_percent) ==
    [low    |-> MinOf({max_workers,
                       Adjusted(MemoryBased(available_gb, 2), AdjustmentFactor(memory_percent))}),
     medium |-> MinOf({max_workers \div 2,
                       Adjusted(MemoryBased(available_gb, 4), AdjustmentFactor(memory_percent))}),
     high   |-> MinOf({2,
                       Adjusted(MemoryBased(available_gb, 8), AdjustmentFactor(memory_percent))})]

\* Extractor.calculate_optimal_workers
ExtractorWorkers(max_workers, available_gb, memory_percent, disk_space_gb) ==
    [minimal |-> MinOf({max_workers,
                        Adjusted(MemoryBased(available_gb, 1),
                                 DiskAdjusted(AdjustmentFactor(memory_percent), disk_space_gb))}),
     low     |-> MinOf({max_workers,
                        Adjusted(MemoryBased(available_gb, 2),
                                 DiskAdjusted(AdjustmentFactor(memory_percent), disk_space_gb))}),
     medium  |-> MinOf({max_workers \div 2,
                        Adjusted(MemoryBased(available_gb, 4),
                                 DiskAdjusted(AdjustmentFactor(memory_percent), disk_space_gb))}),
     high    |-> 1]

\* "effective_workers = min(workers, len(...))"
EffectiveOf(workers, files) == MinOf({workers, files})

\* How _convert_batch runs its files: itself, one after the other, with one
\* worker or one file; else on ThreadPoolExecutor(max_workers=effective_workers),
\* which raises ValueError unless effective_workers > 0.
ConvertBatchStart(workers, files) ==
    IF EffectiveOf(workers, files) = 1 \/ files = 1 THEN "sequential"
    ELSE IF EffectiveOf(workers, files) <= 0 THEN "ValueError"
    ELSE "pool"

\* _extract_batch always takes a ThreadPoolExecutor.
ExtractBatchStart(workers, files) ==
    IF EffectiveOf(workers, files) <= 0 THEN "ValueError" ELSE "pool"

\* What these operations leave alone.
WorkersStep ==
    UNCHANGED <<chdFiles, m3u, bak, stateFile, game_series, series_signatures,
                created_playlists, user_customized, recently_updated, userMade, hist,
                names, given, fs, conv>>

\* calculate_optimal_workers of a converter built with max_workers
ConverterCalculates(max_workers, available_gb, memory_percent) ==
    /\ lastOp.op = "none"
    /\ lastOp' = [NoOp EXCEPT !.op = "calculate_optimal_workers",
                              !.arg = [of |-> "converter", max_workers |-> max_workers,
                                       available_gb |-> available_gb,
                                       memory_percent |-> memory_percent,
                                       workers |-> ConverterWorkers(max_workers, available_gb,
                                                                    memory_percent)]]
    /\ steps' = steps + 1
    /\ WorkersStep

\* calculate_optimal_workers of an extractor built with max_workers
ExtractorCalculates(max_workers, available_gb, memory_percent, disk_space_gb) ==
    /\ lastOp.op = "none"
    /\ lastOp' = [NoOp EXCEPT !.op = "calculate_optimal_workers",
                              !.arg = [of |-> "extractor", max_workers |-> max_workers,
                                       available_gb |-> available_gb,
                                       memory_percent |-> memory_percent,
                                       disk_space_gb |-> disk_space_gb,
                                       workers |-> ExtractorWorkers(max_workers, available_gb,
                                                                    memory_percent,
                                                                    disk_space_gb)]]
    /\ steps' = steps + 1
    /\ WorkersStep

\* convert_multiple, batch_extract hand the files of one complexity, at least
\* one, to _convert_batch, _extract_batch with the workers calculated for it.
StartBatch(tier, files) ==
    /\ lastOp.op = "calculate_optimal_workers"
    /\ tier \in DOMAIN lastOp.arg.workers
    /\ lastOp' = [NoOp EXCEPT
           !.op = IF lastOp.arg.of = "converter" THEN "_convert_batch" ELSE "_extract_batch",
           !.arg = [max_workers |-> lastOp.arg.max_workers, tier |-> tier, files |-> files,
                    workers |-> lastOp.arg.workers[tier],
                    effective_workers |-> EffectiveOf(lastOp.arg.workers[tier], files),
                    start |-> IF lastOp.arg.of = "converter"
                              THEN ConvertBatchStart(lastOp.arg.workers[tier], files)
                              ELSE ExtractBatchStart(lastOp.arg.workers[tier], files)]]
    /\ steps' = steps + 1
    /\ WorkersStep

Complexities == {"minimal", "low", "medium", "high"}

InitWorkers == InitEmpty

NextWorkers ==
    \/ \E max_workers \in 1..CpuCount, available_gb \in AvailableGb,
          memory_percent \in MemoryPercents :
              ConverterCalculates(max_workers, available_gb, memory_percent)
    \/ \E max_workers \in 1..CpuCount, available_gb \in AvailableGb,
          memory_percent \in MemoryPercents, disk_space_gb \in DiskSpaceGb :
              ExtractorCalculates(max_workers, available_gb, memory_percent, disk_space_gb)
    \/ \E tier \in Complexities, files \in 1..MaxBatchFiles : StartBatch(tier, files)

SpecWorkers == InitWorkers /\ [][NextWorkers]_vars

\* C40: for every max_workers of 1 or more and every memory snapshot the
\* workers calculate_optimal_workers gives each complexity are at least 1 and
\* at most max_workers, so _convert_batch and _extract_batch never start a pool
\* of no workers or of more workers than configured.
C40_WorkersWithinLimits ==
    /\ lastOp.op = "calculate_optimal_workers" =>
          \A tier \in DOMAIN lastOp.arg.workers :
              /\ lastOp.arg.workers[tier] >= 1
              /\ lastOp.arg.workers[tier] <= lastOp.arg.max_workers
    /\ lastOp.op \in {"_convert_batch", "_extract_batch"} =>
          /\ lastOp.arg.start # "ValueError"
          /\ lastOp.arg.start = "pool" =>
                /\ lastOp.arg.effective_workers >= 1
                /\ lastOp.arg.effective_workers <= lastOp.arg.max_workers

\* With max_workers = 1 the pool for two files of medium complexity is asked
\* for with no workers and ThreadPoolExecutor raises ValueError.
C40_PoolOfNoWorkers ==
    /\ lastOp.op \in {"_convert_batch", "_extract_batch"}
    /\ lastOp.arg.max_workers = 1
    /\ lastOp.arg.tier = "medium"
    /\ lastOp.arg.effective_workers = 0
    /\ lastOp.arg.start = "ValueError"

(***************************************************************************)
(* The archives of the source directory: the loops over the archives of    *)
(* batch_process (convert.py) and of process_archives (7z_to_chd.py).      *)
(***************************************************************************)
\* The archives of the source directory: one for each title and disc of
\* InputTable.
SevenZipSuffix == <<".", "7", "z">>

SourceArchives == {PathStem(InputTable[i]) \o SevenZipSuffix : i \in 1..Len(InputTable)}

\* What convert_multiple hands back for the files of one archive: the success
\* flags of the files it converted, none ({}) when chdman is not available or
\* every output exists; or it raises.
ConversionResults == {<<>>} \cup [1..1 -> BOOLEAN] \cup [1..2 -> BOOLEAN]

\* What the calls of one round of the loop of batch_process come back with:
\* whether the CHD file exists, whether extract_archive gives a directory, None
\* or raises, the number of convertible files identify_disc_files finds, and
\* what convert_multiple does.
BatchOutcomes ==
    [chd_exists : BOOLEAN, extract : {"dir", "none", "raises"}, files : 0..1,
     raises : BOOLEAN, results : ConversionResults]

\* The round comes to "if not keep_files: archive_path.unlink()": the CHD file
\* is not there, the archive was extracted, it holds convertible files and
\* convert_multiple returned.
ReachesUnlink(o) ==
    /\ ~o.chd_exists
    /\ o.extract = "dir"
    /\ o.files > 0
    /\ ~o.raises

\* One round of the loop of batch_process leaves the archive deleted.
BatchRoundDeletes(keep_files, o) == ReachesUnlink(o) /\ ~keep_files

\* The disc images of the archive were converted, every one with success.
ConvertedAll(o) ==
    /\ ReachesUnlink(o)
    /\ Len(o.results) > 0
    /\ \A i \in 1..Len(o.results) : o.results[i]

\* What one round of process_archives comes back with: whether extract_7z
\* succeeds, whether find_disk_image finds an image, whether convert_to_chd
\* returns the CHD file, and whether os.remove succeeds.
ArchiveOutcomes ==
    [extracted : BOOLEAN, disk_image : BOOLEAN, chd_file : BOOLEAN, removed : BOOLEAN]

\* "if not keep_original and chd_file: os.remove(archive_path)"
ArchiveRoundDeletes(keep_original, o) ==
    /\ o.extracted
    /\ o.disk_image
    /\ ~keep_original /\ o.chd_file
    /\ o.removed

\* What a round leaves alone.
ArchiveStep ==
    UNCHANGED <<chdFiles, m3u, bak, stateFile, game_series, series_signatures,
                created_playlists, user_customized, recently_updated, userMade,
                names, given, conv>>

\* One round of "for i, archive_path in enumerate(...)" of batch_process, for an
\* archive of the source directory the loop has not come to yet.  (The loop
\* stands behind the set-up of batch_process, which BatchProcess models.)
BatchProcessRound(archive, o) ==
    /\ given.run = "batch_process"
    /\ archive \notin SeqToSet(hist)
    /\ KindOf(fs, archive) = "file"
    /\ fs' = IF BatchRoundDeletes(given.keep, o) THEN DelKey(fs, archive) ELSE fs
    /\ hist' = Append(hist, archive)
    /\ lastOp' = [NoOp EXCEPT !.op = "batch_process round",
                              !.arg = [archive |-> archive, keep |-> given.keep,
                                       converted |-> ConvertedAll(o), outcome |-> o]]
    /\ steps' = steps + 1
    /\ ArchiveStep

\* One round of "for archive_path in archives" of process_archives.
ProcessArchivesRound(archive, o) ==
    /\ given.run = "process_archives"
    /\ archive \notin SeqToSet(hist)
    /\ KindOf(fs, archive) = "file"
    /\ fs' = IF ArchiveRoundDeletes(given.keep, o) THEN DelKey(fs, archive) ELSE fs
    /\ hist' = Append(hist, archive)
    /\ lastOp' = [NoOp EXCEPT !.op = "process_archives round",
                              !.arg = [archive |-> archive, keep |-> given.keep,
                                       converted |-> o.extracted /\ o.disk_image /\ o.chd_file,
                                       outcome |-> o]]
    /\ steps' = steps + 1
    /\ ArchiveStep

\* A source directory that holds the archives, and a run of batch_process or
\* of process_archives told to keep the originals or not.
InitArchives ==
    /\ given \in [run : {"batch_process", "process_archives"}, keep : BOOLEAN]
    /\ fs = [a \in SourceArchives |-> "file"]
    /\ conv = NoConversion
    /\ chdFiles = {}
    /\ m3u = EmptyDict
    /\ bak = EmptyDict
    /\ stateFile = NoFile
    /\ game_series = EmptyDict
    /\ series_signatures = EmptyDict
    /\ created_playlists = {}
    /\ user_customized = {}
    /\ recently_updated = {}
    /\ lastOp = NoOp
    /\ userMade = {}
    /\ hist = <<>>
    /\ steps = 0
    /\ names = NameTables

NextArchives ==
    \/ \E archive \in SourceArchives, o \in BatchOutcomes : BatchProcessRound(archive, o)
    \/ \E archive \in SourceArchives, o \in ArchiveOutcomes : ProcessArchivesRound(archive, o)

SpecArchives == InitArchives /\ [][NextArchives]_vars

\* The archive of the round is gone from the source directory.
RoundDeleted == KindOf(fs, lastOp.arg.archive) = "missing"

C39_DeletedWithoutConversion ==
    /\ lastOp.op = "batch_process round"
    /\ RoundDeleted
    /\ lastOp.arg.outcome.results = <<>>
    /\ ~lastOp.arg.converted

=============================================================================
